---- MODULE Spec2Model ----
(***************************************************************************)
(* Simulation core of "He Walks Unseen": the space-time cube, the player's *)
(* world line, causal propagation, detection and the action layer.         *)
(*                                                                         *)
(* Option<T> is modelled as a sequence of length 0 (None) or 1 (Some).     *)
(* A HashMap is a function whose DOMAIN is the set of keys present.        *)
(***************************************************************************)
EXTENDS Integers, Sequences, FiniteSets, TLC

VARIABLES game, result, level, line, line_result,
          world, world_result, tslice, tslice_result, sight

vars == <<game, result, level, line, line_result,
          world, world_result, tslice, tslice_result, sight>>

(***************************************************************************)
(* Bounds of the model.                                                    *)
(***************************************************************************)
\* Cube dimensions used by every level.
Width == 4
Height == 2
TimeDepth == 3
\* Cap on the number of successful turns explored in one session.
MaxTurn == 3
\* Stand-alone world line: coordinates drawn from 0..WLMax*, path length cap.
WLMaxX == 1
WLMaxT == 2
MaxPath == 3

(***************************************************************************)
(* Generic helpers.                                                        *)
(***************************************************************************)
None == <<>>
Some(v) == <<v>>
IsSome(o) == o # <<>>
Unwrap(o) == o[1]

Abs(n) == IF n < 0 THEN -n ELSE n

SeqToSet(s) == {s[i] : i \in 1..Len(s)}
\* Iterator::next on a sequence: its first element, if any.
first(s) == IF s = <<>> THEN None ELSE Some(s[1])

\* All orderings of a finite set, as sequences without repetition.
Orderings(S) ==
    {s \in [1..Cardinality(S) -> S] : \A i, j \in 1..Cardinality(S) : i # j => s[i] # s[j]}

(***************************************************************************)
(* core/position.rs                                                        *)
(***************************************************************************)
Position(x, y, t) == [x |-> x, y |-> y, t |-> t]
SpatialPos(x, y) == [x |-> x, y |-> y]
Direction == {"North", "South", "East", "West"}

spatial(pos) == SpatialPos(pos.x, pos.y)

delta(dir) ==
    CASE dir = "North" -> <<0, -1>>
      [] dir = "South" -> <<0, 1>>
      [] dir = "East"  -> <<1, 0>>
      [] dir = "West"  -> <<-1, 0>>

opposite(dir) ==
    CASE dir = "North" -> "South"
      [] dir = "South" -> "North"
      [] dir = "East"  -> "West"
      [] dir = "West"  -> "East"

move_dir(pos, dir) == Position(pos.x + delta(dir)[1], pos.y + delta(dir)[2], pos.t)
step(pos, dir) == Position(pos.x + delta(dir)[1], pos.y + delta(dir)[2], pos.t + 1)
wait(pos) == Position(pos.x, pos.y, pos.t + 1)
manhattan_distance(a, b) == Abs(a.x - b.x) + Abs(a.y - b.y)
same_spacetime(a, b) == a.x = b.x /\ a.y = b.y /\ a.t = b.t

\* A variant of is_valid_step_from that measures the step by its larger
\* coordinate difference, so that a diagonal neighbour is one step away.
is_valid_step_from_any_neighbour(pos, current) ==
    /\ pos.t = current.t + 1
    /\ Abs(current.x - pos.x) <= 1 /\ Abs(current.y - pos.y) <= 1

is_valid_step_from(pos, current) ==
    pos.t = current.t + 1 /\ manhattan_distance(current, pos) <= 1

(***************************************************************************)
(* core/components.rs, core/entity.rs                                      *)
(***************************************************************************)
PatrolData(path, loops) == [path |-> path, loops |-> loops]
VisionData(light_speed) == [light_speed |-> light_speed]

\* A variant of position_at that wraps around whether the patrol loops or not.
position_at_always_looping(patrol, t) ==
    patrol.path[(t % Len(patrol.path)) + 1]

\* PatrolData::position_at; the path is non-empty and t >= 0.  Rust indexes
\* from 0, the sequence from 1.
position_at(patrol, t) ==
    LET n == Len(patrol.path)
        index == IF patrol.loops THEN t % n ELSE IF t < n - 1 THEN t ELSE n - 1
    IN patrol.path[index + 1]

\* An entity: id, position, the unit components as a set of tags, and the
\* data-carrying components (Patrol, VisionCone, Rift) as options.
Entity(id, position, components, patrol, vision, rift) ==
    [id |-> id, position |-> position, components |-> components,
     patrol |-> patrol, vision |-> vision, rift |-> rift]

blocks_movement(e) == "BlocksMovement" \in e.components
blocks_vision(e) == "BlocksVision" \in e.components
is_time_persistent(e) == "TimePersistent" \in e.components
is_player(e) == "Player" \in e.components
is_enemy(e) == IsSome(e.vision)
is_rift(e) == IsSome(e.rift)
is_exit(e) == "Exit" \in e.components
is_pushable(e) == "Pushable" \in e.components
is_pullable(e) == "Pullable" \in e.components

at_position(e, pos) == [e EXCEPT !.position = pos]
at_time(e, t) == at_position(e, Position(e.position.x, e.position.y, t))

wall(id, pos) ==
    Entity(id, pos, {"BlocksMovement", "BlocksVision", "TimePersistent"}, None, None, None)
player(id, pos) == Entity(id, pos, {"Player"}, None, None, None)
enemy(id, pos, patrol, vision) ==
    Entity(id, pos, {"TimePersistent"}, Some(patrol), Some(vision), None)
pushable_box(id, pos) ==
    Entity(id, pos, {"Pushable", "BlocksMovement", "TimePersistent"}, None, None, None)
pullable_box(id, pos) ==
    Entity(id, pos, {"Pushable", "Pullable", "BlocksMovement", "TimePersistent"},
           None, None, None)
rift(id, pos, target, bidirectional) ==
    Entity(id, pos, {"TimePersistent"}, None, None, Some([target |-> target, bidirectional |-> bidirectional]))
exit(id, pos) == Entity(id, pos, {"Exit", "TimePersistent"}, None, None, None)

(***************************************************************************)
(* core/time_slice.rs                                                      *)
(***************************************************************************)
TimeSlice_new(t, width, height) ==
    [t |-> t, width |-> width, height |-> height,
     entities |-> <<>>, spatial_index |-> <<>>]

add_to_index(index, pos, id) ==
    IF pos \in DOMAIN index
    THEN IF id \in SeqToSet(index[pos]) THEN index
         ELSE [index EXCEPT ![pos] = Append(@, id)]
    ELSE index @@ (pos :> <<id>>)

remove_from_index(index, pos, id) ==
    IF pos \in DOMAIN index
    THEN LET entry == SelectSeq(index[pos], LAMBDA existing : existing # id)
         IN IF entry = <<>> THEN [k \in DOMAIN index \ {pos} |-> index[k]]
            ELSE [index EXCEPT ![pos] = entry]
    ELSE index

entity_ids_at(slice, pos) ==
    IF pos \in DOMAIN slice.spatial_index THEN slice.spatial_index[pos] ELSE <<>>

\* filter_map over the ids of the cell, in index order.
slice_entities_at(slice, pos) ==
    LET ids == SelectSeq(entity_ids_at(slice, pos), LAMBDA id : id \in DOMAIN slice.entities)
    IN [i \in 1..Len(ids) |-> slice.entities[ids[i]]]

slice_entity(slice, id) ==
    IF id \in DOMAIN slice.entities THEN Some(slice.entities[id]) ELSE None

\* A variant of add_entity that leaves the index entry of the replaced instance.
add_entity_keeping_old_entry(slice, e) ==
    [slice EXCEPT !.entities = IF e.id \in DOMAIN slice.entities
                               THEN [slice.entities EXCEPT ![e.id] = e]
                               ELSE slice.entities @@ (e.id :> e),
                  !.spatial_index = add_to_index(slice.spatial_index, spatial(e.position), e.id)]

add_entity(slice, e) ==
    LET idx1 == IF e.id \in DOMAIN slice.entities
                THEN remove_from_index(slice.spatial_index,
                                       spatial(slice.entities[e.id].position), e.id)
                ELSE slice.spatial_index
        ents == IF e.id \in DOMAIN slice.entities
                THEN [slice.entities EXCEPT ![e.id] = e]
                ELSE slice.entities @@ (e.id :> e)
    IN [slice EXCEPT !.entities = ents,
                     !.spatial_index = add_to_index(idx1, spatial(e.position), e.id)]

remove_entity(slice, id) ==
    IF id \notin DOMAIN slice.entities THEN slice
    ELSE [slice EXCEPT
            !.entities = [k \in DOMAIN @ \ {id} |-> @[k]],
            !.spatial_index =
                remove_from_index(@, spatial(slice.entities[id].position), id)]

\* TimeSlice::move_entity: [moved, slice], moved being the value returned.
move_entity(slice, id, to) ==
    IF id \notin DOMAIN slice.entities THEN [moved |-> FALSE, slice |-> slice]
    ELSE IF spatial(slice.entities[id].position) = to THEN [moved |-> TRUE, slice |-> slice]
    ELSE [moved |-> TRUE,
          slice |-> [slice EXCEPT
                        !.entities[id].position =
                            Position(to.x, to.y, slice.entities[id].position.t),
                        !.spatial_index =
                            add_to_index(
                                remove_from_index(@, spatial(slice.entities[id].position), id),
                                to, id)]]

blocks_vision_at(slice, pos) ==
    \E e \in SeqToSet(slice_entities_at(slice, pos)) : blocks_vision(e)

is_exit_at(slice, pos) ==
    \E e \in SeqToSet(slice_entities_at(slice, pos)) : is_exit(e)

\* find_map: the target of the first rift entity of the cell, in index order.
rift_target_at(slice, pos) ==
    LET rifts == SelectSeq(slice_entities_at(slice, pos), is_rift)
    IN IF rifts = <<>> THEN None ELSE Some(Unwrap(rifts[1].rift).target)

all_entities(slice) == {slice.entities[id] : id \in DOMAIN slice.entities}
enemies(slice) == {e \in all_entities(slice) : is_enemy(e)}

(***************************************************************************)
(* core/time_cube.rs                                                       *)
(***************************************************************************)
TimeCube_new(width, height, time_depth) ==
    LET depth == IF time_depth < 0 THEN 0 ELSE time_depth
    IN [width |-> width, height |-> height, time_depth |-> depth,
        slices |-> [i \in 1..depth |-> TimeSlice_new(i - 1, width, height)]]

\* A variant of in_bounds that tests the upper bounds only.
in_bounds_below_the_upper_bounds(cube, pos) ==
    pos.x < cube.width /\ pos.y < cube.height /\ pos.t < cube.time_depth

in_bounds(cube, pos) ==
    /\ pos.x >= 0 /\ pos.y >= 0 /\ pos.t >= 0
    /\ pos.x < cube.width /\ pos.y < cube.height /\ pos.t < cube.time_depth

\* TimeCube::slice: Some(slice) when 0 <= t < number of slices.
slice(cube, t) ==
    IF t < 0 \/ t >= Len(cube.slices) THEN None ELSE Some(cube.slices[t + 1])

with_slice(cube, t, s) == [cube EXCEPT !.slices[t + 1] = s]

entity_at_time(cube, id, t) ==
    IF IsSome(slice(cube, t)) THEN slice_entity(Unwrap(slice(cube, t)), id) ELSE None

entities_at(cube, pos) ==
    IF ~in_bounds(cube, pos) THEN <<>>
    ELSE IF IsSome(slice(cube, pos.t))
         THEN slice_entities_at(Unwrap(slice(cube, pos.t)), spatial(pos))
         ELSE <<>>

\* Results of cube operations: [ok, err, cube]; on error the cube is the
\* receiver as the failing call left it.
CubeOk(cube) == [ok |-> TRUE, err |-> "", cube |-> cube]
CubeErr(cube, err) == [ok |-> FALSE, err |-> err, cube |-> cube]

spawn(cube, e) ==
    IF ~in_bounds(cube, e.position) THEN CubeErr(cube, "OutOfBounds")
    ELSE IF ~IsSome(slice(cube, e.position.t)) THEN CubeErr(cube, "TimeSliceNotFound")
    ELSE IF IsSome(slice_entity(Unwrap(slice(cube, e.position.t)), e.id))
         THEN CubeErr(cube, "EntityAlreadyExists")
    ELSE CubeOk(with_slice(cube, e.position.t,
                           add_entity(Unwrap(slice(cube, e.position.t)), e)))

\* A variant of add_at_times that leaves the last slice out.
RECURSIVE add_at_times_but_last(_, _, _)
add_at_times_but_last(cube, e, t) ==
    IF t >= cube.time_depth - 1 THEN cube
    ELSE add_at_times_but_last(
            IF IsSome(slice(cube, t))
            THEN with_slice(cube, t, add_entity(Unwrap(slice(cube, t)), at_time(e, t)))
            ELSE cube,
            e, t + 1)

\* Writes e at times from..time_depth-1 (the second loop of spawn_and_propagate).
RECURSIVE add_at_times(_, _, _)
add_at_times(cube, e, t) ==
    IF t >= cube.time_depth THEN cube
    ELSE add_at_times(
            IF IsSome(slice(cube, t))
            THEN with_slice(cube, t, add_entity(Unwrap(slice(cube, t)), at_time(e, t)))
            ELSE cube,
            e, t + 1)

\* Writes e at times t..time_depth-1 until a slice already holds its id.
RECURSIVE add_until_conflict(_, _, _)
add_until_conflict(cube, e, t) ==
    IF t >= cube.time_depth THEN CubeOk(cube)
    ELSE IF IsSome(entity_at_time(cube, e.id, t)) THEN CubeErr(cube, "EntityAlreadyExists")
    ELSE add_until_conflict(
            with_slice(cube, t, add_entity(Unwrap(slice(cube, t)), at_time(e, t))), e, t + 1)

\* A variant of spawn_and_propagate that looks for the id in a later slice
\* only when it comes to write that slice.
spawn_and_propagate_checking_late(cube, e) ==
    IF ~in_bounds(cube, e.position) THEN CubeErr(cube, "OutOfBounds")
    ELSE IF ~spawn(cube, e).ok THEN spawn(cube, e)
    ELSE IF is_time_persistent(e)
         THEN add_until_conflict(spawn(cube, e).cube, e, e.position.t + 1)
    ELSE spawn(cube, e)

spawn_and_propagate(cube, e) ==
    LET start_t == e.position.t
        is_persistent == is_time_persistent(e)
    IN IF ~in_bounds(cube, e.position) THEN CubeErr(cube, "OutOfBounds")
       ELSE IF IsSome(entity_at_time(cube, e.id, start_t))
            THEN CubeErr(cube, "EntityAlreadyExists")
       ELSE IF is_persistent /\ \E t \in (start_t + 1)..(cube.time_depth - 1) :
                                   IsSome(entity_at_time(cube, e.id, t))
            THEN CubeErr(cube, "EntityAlreadyExists")
       ELSE LET r == spawn(cube, e)
            IN IF ~r.ok THEN r
               ELSE IF is_persistent THEN CubeOk(add_at_times(r.cube, e, start_t + 1))
               ELSE r

\* A variant of spawn_or_replace without validate_position.
spawn_or_replace_unchecked(cube, e) ==
    IF ~IsSome(slice(cube, e.position.t)) THEN CubeErr(cube, "TimeSliceNotFound")
    ELSE CubeOk(with_slice(cube, e.position.t,
                           add_entity(Unwrap(slice(cube, e.position.t)), e)))

spawn_or_replace(cube, e) ==
    IF ~in_bounds(cube, e.position) THEN CubeErr(cube, "OutOfBounds")
    ELSE IF ~IsSome(slice(cube, e.position.t)) THEN CubeErr(cube, "TimeSliceNotFound")
    ELSE CubeOk(with_slice(cube, e.position.t,
                           add_entity(Unwrap(slice(cube, e.position.t)), e)))

despawn_at(cube, id, t) ==
    IF ~IsSome(slice(cube, t)) THEN CubeErr(cube, "TimeSliceNotFound")
    ELSE IF ~IsSome(slice_entity(Unwrap(slice(cube, t)), id))
         THEN CubeErr(cube, "EntityNotFound")
    ELSE CubeOk(with_slice(cube, t, remove_entity(Unwrap(slice(cube, t)), id)))

\* The loop of despawn_all over the slices, from index i on: acc = [cube, removed].
RECURSIVE despawn_from(_, _, _)
despawn_from(acc, id, i) ==
    IF i > Len(acc.cube.slices) THEN acc
    ELSE IF IsSome(slice_entity(acc.cube.slices[i], id))
    THEN despawn_from([cube |-> [acc.cube EXCEPT !.slices[i] = remove_entity(@, id)],
                       removed |-> Append(acc.removed, acc.cube.slices[i].entities[id])],
                      id, i + 1)
    ELSE despawn_from(acc, id, i + 1)

despawn_all(cube, id) == despawn_from([cube |-> cube, removed |-> <<>>], id, 1)

cube_blocks_vision(cube, pos) ==
    IF ~in_bounds(cube, pos) THEN FALSE
    ELSE IF IsSome(slice(cube, pos.t))
         THEN blocks_vision_at(Unwrap(slice(cube, pos.t)), spatial(pos))
         ELSE FALSE

rift_target(cube, pos) ==
    IF ~in_bounds(cube, pos) THEN None
    ELSE IF IsSome(slice(cube, pos.t))
         THEN rift_target_at(Unwrap(slice(cube, pos.t)), spatial(pos))
         ELSE None

cube_is_exit(cube, pos) ==
    IF ~in_bounds(cube, pos) THEN FALSE
    ELSE IF IsSome(slice(cube, pos.t))
         THEN is_exit_at(Unwrap(slice(cube, pos.t)), spatial(pos))
         ELSE FALSE

enemies_at(cube, t) ==
    IF IsSome(slice(cube, t)) THEN enemies(Unwrap(slice(cube, t))) ELSE {}

(***************************************************************************)
(* core/propagation.rs                                                     *)
(***************************************************************************)
PropagationOptions(only_entities, stop_at, skip_collisions) ==
    [only_entities |-> only_entities, stop_at |-> stop_at,
     skip_collisions |-> skip_collisions]

compute_propagated_entity(e, target_t) ==
    IF ~is_time_persistent(e) \/ is_player(e) THEN None
    ELSE IF IsSome(e.patrol)
         THEN LET new_spatial == position_at(Unwrap(e.patrol), target_t)
              IN Some(at_position(at_time(e, target_t),
                                  Position(new_spatial.x, new_spatial.y, target_t)))
         ELSE Some(at_time(e, target_t))

would_collide(a, b) ==
    blocks_movement(a) /\ blocks_movement(b) /\ same_spacetime(a.position, b.position)

\* The entities the source slice contributes (lines 87-99).
source_entity_ids(cube, from_t, options) ==
    IF ~IsSome(slice(cube, from_t)) THEN {}
    ELSE {e.id : e \in {e \in all_entities(Unwrap(slice(cube, from_t))) :
            /\ is_time_persistent(e) /\ ~is_player(e)
            /\ (IsSome(options.only_entities) => e.id \in Unwrap(options.only_entities))}}

\* The body of the loop over the source entities for one target slice
\* (lines 104-149): acc = [to_add, position_map, warnings].
RECURSIVE collect_to_add(_, _, _, _, _, _)
collect_to_add(cube, source_entities, i, target_t, options, acc) ==
    IF i > Len(source_entities) THEN acc
    ELSE LET propagated == Unwrap(compute_propagated_entity(source_entities[i], target_t))
             others == IF IsSome(slice(cube, target_t))
                       THEN SelectSeq(
                              slice_entities_at(Unwrap(slice(cube, target_t)),
                                                spatial(propagated.position)),
                              LAMBDA other : other.id # propagated.id
                                             /\ would_collide(propagated, other))
                       ELSE <<>>
             mapped == propagated.position \in DOMAIN acc.position_map
             w1 == IF mapped
                   THEN Append(acc.warnings,
                               [kind |-> "EntityCollision",
                                entity_a |-> acc.position_map[propagated.position],
                                entity_b |-> propagated.id, at |-> propagated.position])
                   ELSE acc.warnings
             w2 == w1 \o [k \in 1..Len(others) |->
                            [kind |-> "EntityCollision", entity_a |-> others[k].id,
                             entity_b |-> propagated.id, at |-> propagated.position]]
         IN IF ~in_bounds(cube, propagated.position)
            THEN collect_to_add(cube, source_entities, i + 1, target_t, options,
                    [acc EXCEPT !.warnings =
                        Append(@, [kind |-> "OutOfBounds", entity_a |-> propagated.id,
                                   entity_b |-> propagated.id,
                                   at |-> propagated.position])])
            ELSE IF mapped /\ options.skip_collisions
            THEN collect_to_add(cube, source_entities, i + 1, target_t, options,
                    [acc EXCEPT !.warnings = w1])
            \* The `continue` of lines 140-142 only leaves the inner loop over
            \* the entities already in the cell: the entity is still added.
            ELSE collect_to_add(cube, source_entities, i + 1, target_t, options,
                    [to_add |-> Append(acc.to_add, propagated),
                     position_map |->
                        IF mapped
                        THEN [acc.position_map EXCEPT ![propagated.position] = propagated.id]
                        ELSE acc.position_map @@ (propagated.position :> propagated.id),
                     warnings |-> w2])

\* A variant of add_all that removes an entity the slice already holds.
RECURSIVE add_all_or_remove(_, _, _)
add_all_or_remove(s, to_add, i) ==
    IF i > Len(to_add) THEN s
    ELSE add_all_or_remove(IF IsSome(slice_entity(s, to_add[i].id))
                           THEN remove_entity(s, to_add[i].id)
                           ELSE add_entity(s, to_add[i]),
                           to_add, i + 1)

RECURSIVE add_all(_, _, _)
add_all(s, to_add, i) ==
    IF i > Len(to_add) THEN s ELSE add_all(add_entity(s, to_add[i]), to_add, i + 1)

\* The loop over the target slices (lines 101-159): acc = [cube, warnings,
\* slices_updated].
RECURSIVE propagate_targets(_, _, _, _, _)
propagate_targets(acc, source_entities, target_t, stop_at, options) ==
    IF target_t > stop_at THEN acc
    ELSE LET c == collect_to_add(acc.cube, source_entities, 1, target_t, options,
                     [to_add |-> <<>>, position_map |-> <<>>, warnings |-> <<>>])
             written == c.to_add # <<>> /\ IsSome(slice(acc.cube, target_t))
         IN propagate_targets(
                [cube |-> IF written
                          THEN with_slice(acc.cube, target_t,
                                   add_all(Unwrap(slice(acc.cube, target_t)), c.to_add, 1))
                          ELSE acc.cube,
                 warnings |-> acc.warnings \o c.warnings,
                 slices_updated |-> IF c.to_add # <<>> THEN acc.slices_updated + 1
                                    ELSE acc.slices_updated],
                source_entities, target_t + 1, stop_at, options)

\* The PropagationResult built after the loop (lines 161-168), with the cube
\* as the call leaves it.
PropagationDone(r, order) ==
    [ok |-> TRUE, err |-> "", cube |-> r.cube, warnings |-> r.warnings,
     affected_entities |-> SeqToSet(order), slices_updated |-> r.slices_updated]

\* order: the order in which the HashMap of the source slice yields the
\* selected entities (a sequence of their ids); the caller ranges over all.
propagate_from_with_options(cube, from_t, options, order) ==
    IF ~IsSome(slice(cube, from_t))
    THEN [ok |-> FALSE, err |-> "TimeSliceNotFound", cube |-> cube,
          warnings |-> <<>>, affected_entities |-> {}, slices_updated |-> 0]
    ELSE PropagationDone(
            propagate_targets([cube |-> cube, warnings |-> <<>>, slices_updated |-> 0],
                [i \in 1..Len(order) |-> Unwrap(slice(cube, from_t)).entities[order[i]]],
                from_t + 1,
                IF IsSome(options.stop_at) /\ Unwrap(options.stop_at) < cube.time_depth - 1
                THEN Unwrap(options.stop_at)
                ELSE cube.time_depth - 1,
                options),
            order)

propagate_entity(cube, entity_id, from_t, order) ==
    propagate_from_with_options(cube, from_t,
        PropagationOptions(Some({entity_id}), None, FALSE), order)

propagate_from(cube, from_t, order) ==
    propagate_from_with_options(cube, from_t, PropagationOptions(None, None, FALSE), order)

\* TimeCube::propagate_slice and TimeCube::propagate_all (time_cube.rs).
propagate_slice(cube, from_t, order) ==
    propagate_from_with_options(cube, from_t,
        PropagationOptions(None, Some(from_t + 1), FALSE), order)

propagate_all(cube, order) == propagate_from(cube, 0, order)

(***************************************************************************)
(* core/world_line.rs                                                      *)
(***************************************************************************)
WorldLine_new(start) == [path |-> <<start>>, visited |-> {start}]
WorldLine_empty == [path |-> <<>>, visited |-> {}]

current(wl) == IF wl.path = <<>> THEN None ELSE Some(wl.path[Len(wl.path)])
current_turn(wl) == IF wl.path = <<>> THEN None ELSE Some(Len(wl.path) - 1)
\* A variant of would_intersect that compares with the current position only.
would_intersect_with_current(wl, pos) == current(wl) = Some(pos)

would_intersect(wl, pos) == pos \in wl.visited

\* Results of world-line operations: [ok, err, wl]; wl is the receiver
\* after the call.
WlOk(wl) == [ok |-> TRUE, err |-> "", wl |-> wl]
WlErr(wl, err) == [ok |-> FALSE, err |-> err, wl |-> wl]

\* A variant of extend that omits the would_intersect test.
extend_without_intersection_test(wl, pos) ==
    IF current(wl) = None THEN WlErr(wl, "Empty")
    ELSE IF ~is_valid_step_from(pos, Unwrap(current(wl))) THEN WlErr(wl, "InvalidStep")
    ELSE WlOk([path |-> Append(wl.path, pos), visited |-> wl.visited \cup {pos}])

extend(wl, pos) ==
    IF current(wl) = None THEN WlErr(wl, "Empty")
    ELSE IF ~is_valid_step_from(pos, Unwrap(current(wl))) THEN WlErr(wl, "InvalidStep")
    ELSE IF would_intersect(wl, pos) THEN WlErr(wl, "SelfIntersection")
    ELSE WlOk([path |-> Append(wl.path, pos), visited |-> wl.visited \cup {pos}])

\* A variant of extend_via_rift that compares only the time of the target
\* with the visited positions.
extend_via_rift_to_unvisited_time(wl, pos) ==
    IF wl.path = <<>> THEN WlErr(wl, "Empty")
    ELSE IF \E v \in wl.visited : v.t = pos.t THEN WlErr(wl, "SelfIntersection")
    ELSE WlOk([path |-> Append(wl.path, pos), visited |-> wl.visited \cup {pos}])

extend_via_rift(wl, pos) ==
    IF wl.path = <<>> THEN WlErr(wl, "Empty")
    ELSE IF would_intersect(wl, pos) THEN WlErr(wl, "SelfIntersection")
    ELSE WlOk([path |-> Append(wl.path, pos), visited |-> wl.visited \cup {pos}])

\* WorldLine::max_t: the largest t recorded in the path, None when empty.
max_t(wl) ==
    IF wl.path = <<>> THEN None
    ELSE Some(CHOOSE m \in {wl.path[i].t : i \in 1..Len(wl.path)} :
                \A i \in 1..Len(wl.path) : wl.path[i].t <= m)

\* WorldLine::current_position_at_time: the position most recently recorded
\* (latest turn) with time t, None when the line never visited t.
current_position_at_time(wl, t) ==
    LET turns == {i \in 1..Len(wl.path) : wl.path[i].t = t}
    IN IF turns = {} THEN None
       ELSE Some(wl.path[CHOOSE i \in turns : \A j \in turns : j <= i])

(***************************************************************************)
(* core/light_cone.rs                                                      *)
(***************************************************************************)
RECURSIVE bresenham_loop(_, _, _, _, _, _, _, _, _, _)
bresenham_loop(x, y, x2, y2, dx, dy, sx, sy, err, points) ==
    LET pts == Append(points, <<x, y>>)
        e2 == 2 * err
        err1 == IF e2 > -dy THEN err - dy ELSE err
        x1 == IF e2 > -dy THEN x + sx ELSE x
        err2 == IF e2 < dx THEN err1 + dx ELSE err1
        y1 == IF e2 < dx THEN y + sy ELSE y
    IN IF x = x2 /\ y = y2 THEN pts
       ELSE bresenham_loop(x1, y1, x2, y2, dx, dy, sx, sy, err2, pts)

bresenham_line(x1, y1, x2, y2) ==
    LET dx == Abs(x2 - x1)
        dy == Abs(y2 - y1)
        sx == IF x1 < x2 THEN 1 ELSE -1
        sy == IF y1 < y2 THEN 1 ELSE -1
    IN bresenham_loop(x1, y1, x2, y2, dx, dy, sx, sy, dx - dy, <<>>)

\* A variant of is_line_blocked that tests the two endpoints as well.
is_line_blocked_with_endpoints(cube, from, to, t) ==
    \E p \in SeqToSet(bresenham_line(from.x, from.y, to.x, to.y)) :
        cube_blocks_vision(cube, Position(p[1], p[2], t))

is_line_blocked(cube, from, to, t) ==
    \E p \in SeqToSet(bresenham_line(from.x, from.y, to.x, to.y)) :
        /\ ~((p[1] = from.x /\ p[2] = from.y) \/ (p[1] = to.x /\ p[2] = to.y))
        /\ cube_blocks_vision(cube, Position(p[1], p[2], t))

(***************************************************************************)
(* core/detection.rs                                                       *)
(***************************************************************************)
DetectionConfig(model, delay_turns, vision_radius) ==
    [model |-> model, delay_turns |-> delay_turns, vision_radius |-> vision_radius]

\* Some(DetectionResult) when the enemy sees a recorded player position.
detected(e, enemy_pos, seen) ==
    IF seen = None THEN None ELSE Some([enemy_id |-> e.id, enemy_position |-> enemy_pos,
                                    player_position |-> Unwrap(seen)])

get_enemy_spatial_position(e, t) ==
    IF IsSome(e.patrol) THEN position_at(Unwrap(e.patrol), t) ELSE spatial(e.position)

\* The checks of check_discrete_delay on the position looked up (lines 116-132).
delayed_position_seen(cube, config, enemy_pos, te, seen) ==
    IF seen = None THEN None
    ELSE IF manhattan_distance(spatial(enemy_pos), spatial(Unwrap(seen)))
              > config.vision_radius THEN None
    ELSE IF is_line_blocked(cube, spatial(enemy_pos), spatial(Unwrap(seen)), te) THEN None
    ELSE seen

\* A variant of check_discrete_delay that looks at the player's position at te itself.
check_discrete_delay_undelayed(cube, world_line, config, e, enemy_pos, te) ==
    detected(e, enemy_pos,
        delayed_position_seen(cube, config, enemy_pos, te,
            current_position_at_time(world_line, te)))

check_discrete_delay(cube, world_line, config, e, enemy_pos, te) ==
    IF te - config.delay_turns < 0 THEN None
    ELSE detected(e, enemy_pos,
            delayed_position_seen(cube, config, enemy_pos, te,
                current_position_at_time(world_line, te - config.delay_turns)))

\* A variant of in_light_cone without the light-speed bound.
in_light_cone_at_any_speed(cube, config, light_speed, enemy_pos, te, p) ==
    /\ p.t < te
    /\ manhattan_distance(spatial(enemy_pos), spatial(p)) <= config.vision_radius
    /\ ~is_line_blocked(cube, spatial(enemy_pos), spatial(p), te)

\* The filter of check_light_cone on one world-line position (lines 146-166).
in_light_cone(cube, config, light_speed, enemy_pos, te, p) ==
    /\ p.t < te
    /\ manhattan_distance(spatial(enemy_pos), spatial(p)) <= light_speed * (te - p.t)
    /\ manhattan_distance(spatial(enemy_pos), spatial(p)) <= config.vision_radius
    /\ ~is_line_blocked(cube, spatial(enemy_pos), spatial(p), te)

check_light_cone(cube, world_line, config, e, enemy_pos, te) ==
    detected(e, enemy_pos,
        first(SelectSeq(world_line.path,
            LAMBDA p : in_light_cone(cube, config,
                           IF IsSome(e.vision) THEN Unwrap(e.vision).light_speed ELSE 3,
                           enemy_pos, te, p))))

check_enemy_at_time(cube, world_line, config, e, te) ==
    IF config.model = "DiscreteDelay"
    THEN check_discrete_delay(cube, world_line, config, e,
             Position(get_enemy_spatial_position(e, te).x,
                      get_enemy_spatial_position(e, te).y, te), te)
    ELSE check_light_cone(cube, world_line, config, e,
             Position(get_enemy_spatial_position(e, te).x,
                      get_enemy_spatial_position(e, te).y, te), te)

\* The detections the enemies of slice te produce.
detections_at(cube, world_line, config, te) ==
    {Unwrap(r) : r \in {check_enemy_at_time(cube, world_line, config, e, te) :
                            e \in enemies_at(cube, te)} \ {None}}

\* The detection of the first enemy, in enemy_order, among those found.
first_in_order(found, enemy_order) ==
    LET seeing == SelectSeq(enemy_order, LAMBDA id : \E r \in found : r.enemy_id = id)
    IN IF seeing = <<>> THEN None ELSE Some(CHOOSE r \in found : r.enemy_id = seeing[1])

\* The loop `for te in 0..=max_t` with its early return (lines 63-71).
RECURSIVE detection_from(_, _, _, _, _, _)
detection_from(cube, world_line, config, enemy_order, te, last) ==
    IF te > last THEN None
    ELSE IF detections_at(cube, world_line, config, te) # {}
    THEN first_in_order(detections_at(cube, world_line, config, te), enemy_order)
    ELSE detection_from(cube, world_line, config, enemy_order, te + 1, last)

\* enemy_order: the order in which the HashMap of a slice yields its
\* enemies (a sequence of ids); the first te with a detection, and in it
\* the first detecting enemy in that order, is returned.
check_detection(cube, world_line, config, enemy_order) ==
    IF max_t(world_line) = None THEN None
    ELSE detection_from(cube, world_line, config, enemy_order, 0, Unwrap(max_t(world_line)))

(***************************************************************************)
(* game/state.rs                                                           *)
(***************************************************************************)
GameConfig(max_push_chain, detection) ==
    [max_push_chain |-> max_push_chain, detection |-> detection]

\* A variant of GameState::new that stops at the first player it finds.
GameState_new_first_player(cube, config) ==
    LET found == {<<t, e>> \in UNION {{<<i - 1, x>> : x \in all_entities(cube.slices[i])} :
                                       i \in 1..Len(cube.slices)} : is_player(e)}
    IN IF found = {}
       THEN [ok |-> FALSE, err |-> "NoPlayer", state |-> None]
       ELSE LET p == (CHOOSE f \in found : \A g \in found : f[1] <= g[1])[2]
                world_line == WorldLine_new(p.position)
            IN [ok |-> TRUE, err |-> "",
                state |-> Some([cube |-> cube, world_line |-> world_line,
                                player_id |-> p.id, phase |-> "Playing", turn |-> 0,
                                history |-> <<>>, config |-> config,
                                initial_cube |-> cube,
                                initial_world_line |-> world_line])]

GameState_new(cube, config) ==
    \* Every Player-tagged entity instance of the cube, as <<slice time, entity>>.
    LET found == {<<t, e>> \in UNION {{<<i - 1, x>> : x \in all_entities(cube.slices[i])} :
                                       i \in 1..Len(cube.slices)} : is_player(e)}
    IN IF Cardinality(found) > 1
       THEN [ok |-> FALSE, err |-> "MultiplePlayers", state |-> None]
       ELSE IF found = {}
       THEN [ok |-> FALSE, err |-> "NoPlayer", state |-> None]
       ELSE LET p == (CHOOSE f \in found : TRUE)[2]
                world_line == WorldLine_new(p.position)
            IN [ok |-> TRUE, err |-> "",
                state |-> Some([cube |-> cube, world_line |-> world_line,
                                player_id |-> p.id, phase |-> "Playing", turn |-> 0,
                                history |-> <<>>, config |-> config,
                                initial_cube |-> cube,
                                initial_world_line |-> world_line])]

player_position(state) == Unwrap(current(state.world_line))
is_active(state) == state.phase = "Playing"
at_exit(state) == cube_is_exit(state.cube, player_position(state))

\* A variant of reset_to_initial that keeps the current cube.
reset_keeping_cube(state) ==
    [state EXCEPT !.world_line = state.initial_world_line,
                  !.phase = "Playing", !.turn = 0, !.history = <<>>]

\* A variant of reset_to_initial that records the restart in the phase.
reset_to_initial_as_restarted(state) ==
    [state EXCEPT !.cube = state.initial_cube,
                  !.world_line = state.initial_world_line,
                  !.phase = "Restarted", !.turn = 0, !.history = <<>>]

reset_to_initial(state) ==
    [state EXCEPT !.cube = state.initial_cube,
                  !.world_line = state.initial_world_line,
                  !.phase = "Playing", !.turn = 0, !.history = <<>>]

(***************************************************************************)
(* game/validation.rs                                                      *)
(***************************************************************************)
\* MoveError and ActionError values; fields a variant lacks are None or "".
MoveError(kind, pos) == [kind |-> kind, x |-> pos.x, y |-> pos.y, t |-> pos.t]

ActionError(kind, move, phase, at) ==
    [kind |-> kind, move |-> move, phase |-> phase, at |-> at]
GameNotActive(phase) == ActionError("GameNotActive", None, phase, None)
MoveBlocked(move_error) == ActionError("MoveBlocked", Some(move_error), "", None)
PushBlocked(blocked_at) == ActionError("PushBlocked", None, "", Some(blocked_at))
InvalidRiftTarget(target) == ActionError("InvalidRiftTarget", None, "", Some(target))
SimpleError(kind) == ActionError(kind, None, "", None)

would_self_intersect(state, pos) == would_intersect(state.world_line, pos)

blocking_entity_at(cube, pos, ignore_ids) ==
    first(SelectSeq(entities_at(cube, pos),
                    LAMBDA e : blocks_movement(e) /\ e.id \notin ignore_ids))

\* Some(MoveError) or None for Ok(()).
validate_player_move_with_ignores(state, target, ignore_ids) ==
    IF target.t >= state.cube.time_depth THEN Some(MoveError("TimeOverflow", target))
    ELSE IF ~in_bounds(state.cube, target) THEN Some(MoveError("OutOfBounds", target))
    ELSE IF IsSome(blocking_entity_at(state.cube, target, ignore_ids))
         THEN Some(MoveError("Blocked", target))
    ELSE IF would_self_intersect(state, target)
         THEN Some(MoveError("SelfIntersection", target))
    ELSE None

\* A variant of validate_move_target without the blocking-entity test.
validate_move_target_ignoring_blockers(state, target) ==
    IF target.t >= state.cube.time_depth THEN Some(MoveError("TimeOverflow", target))
    ELSE IF ~in_bounds(state.cube, target) THEN Some(MoveError("OutOfBounds", target))
    ELSE IF would_self_intersect(state, target)
         THEN Some(MoveError("SelfIntersection", target))
    ELSE None

\* A variant of validate_move_target that looks for a blocking entity in the
\* slice the player is in instead of the slice of the target.
validate_move_target_blocked_in_current_slice(state, target) ==
    IF target.t >= state.cube.time_depth THEN Some(MoveError("TimeOverflow", target))
    ELSE IF ~in_bounds(state.cube, target) THEN Some(MoveError("OutOfBounds", target))
    ELSE IF IsSome(blocking_entity_at(state.cube,
                                      Position(target.x, target.y, player_position(state).t), {}))
         THEN Some(MoveError("Blocked", target))
    ELSE IF would_self_intersect(state, target)
         THEN Some(MoveError("SelfIntersection", target))
    ELSE None

validate_move_target(state, target) ==
    IF target.t >= state.cube.time_depth THEN Some(MoveError("TimeOverflow", target))
    ELSE IF ~in_bounds(state.cube, target) THEN Some(MoveError("OutOfBounds", target))
    ELSE IF IsSome(blocking_entity_at(state.cube, target, {}))
         THEN Some(MoveError("Blocked", target))
    ELSE IF would_self_intersect(state, target)
         THEN Some(MoveError("SelfIntersection", target))
    ELSE None

validate_entity_target(cube, target, ignore_ids) ==
    IF target.t >= cube.time_depth THEN Some(MoveError("TimeOverflow", target))
    ELSE IF ~in_bounds(cube, target) THEN Some(MoveError("OutOfBounds", target))
    ELSE IF IsSome(blocking_entity_at(cube, target, ignore_ids))
         THEN Some(MoveError("Blocked", target))
    ELSE None

\* Validation results: [ok, err, target / moved].
\* Validation results: [ok, err, target / moved].
Validated(e, target) == [ok |-> e = None, err |-> e, target |-> target]

validate_directional_move(state, direction) ==
    Validated(validate_move_target(state, step(player_position(state), direction)),
              step(player_position(state), direction))

validate_wait(state) ==
    Validated(validate_move_target(state, wait(player_position(state))),
              wait(player_position(state)))

\* A variant of validate_rift_target without the self-intersection test.
validate_rift_target_ignoring_visits(state, found) ==
    IF found = None
    THEN [ok |-> FALSE, err |-> SimpleError("NoRiftHere"), target |-> None]
    ELSE IF ~in_bounds(state.cube, Unwrap(found))
    THEN [ok |-> FALSE, err |-> InvalidRiftTarget(Unwrap(found)), target |-> found]
    ELSE [ok |-> TRUE, err |-> SimpleError(""), target |-> found]

\* The checks of validate_rift on the rift target found (lines 71-81).
validate_rift_target(state, found) ==
    IF found = None
    THEN [ok |-> FALSE, err |-> SimpleError("NoRiftHere"), target |-> None]
    ELSE IF ~in_bounds(state.cube, Unwrap(found))
    THEN [ok |-> FALSE, err |-> InvalidRiftTarget(Unwrap(found)), target |-> found]
    ELSE IF would_self_intersect(state, Unwrap(found))
    THEN [ok |-> FALSE, err |-> InvalidRiftTarget(Unwrap(found)), target |-> found]
    ELSE [ok |-> TRUE, err |-> SimpleError(""), target |-> found]

validate_rift(state) ==
    validate_rift_target(state, rift_target(state.cube, player_position(state)))

\* The while loop of compute_push_chain: chain is a sequence of [id, pos].
RECURSIVE push_chain_loop(_, _, _, _, _)
push_chain_loop(cube, cur, direction, max_chain, chain) ==
    IF ~(Len(chain) <= max_chain) THEN chain
    ELSE IF SelectSeq(entities_at(cube, cur), is_pushable) = <<>> THEN chain
    ELSE push_chain_loop(cube, move_dir(cur, direction), direction, max_chain,
            Append(chain, [id |-> SelectSeq(entities_at(cube, cur), is_pushable)[1].id,
                           pos |-> cur]))

\* A variant of compute_push_chain whose loop stops at max_chain entities
\* (`while chain.len() < max_chain`).
compute_push_chain_capped(cube, start_pos, direction, max_chain) ==
    push_chain_loop(cube, move_dir(start_pos, direction), direction, max_chain - 1, <<>>)

compute_push_chain(cube, start_pos, direction, max_chain) ==
    push_chain_loop(cube, move_dir(start_pos, direction), direction, max_chain, <<>>)

\* A variant of validate_push_chain that tests the pushed entities'
\* destinations in the current slice instead of the next one.
validate_push_chain_in_current_slice(state, direction, cur, chain) ==
    LET next_t == cur.t + 1
        player_to == step(cur, direction)
        ignored_ids == {chain[i].id : i \in 1..Len(chain)} \cup {state.player_id}
        pe == validate_player_move_with_ignores(state, player_to, ignored_ids)
        to(i) == Position(chain[i].pos.x + delta(direction)[1],
                          chain[i].pos.y + delta(direction)[2], next_t)
        bad == {i \in 1..Len(chain) :
                    IsSome(validate_entity_target(state.cube,
                               Position(to(i).x, to(i).y, cur.t), ignored_ids))}
    IN IF chain = <<>>
       THEN [ok |-> FALSE, err |-> SimpleError("NothingToPush"), moved |-> <<>>]
       ELSE IF Len(chain) > state.config.max_push_chain
       THEN [ok |-> FALSE, err |-> SimpleError("PushChainTooLong"), moved |-> <<>>]
       ELSE IF IsSome(pe)
       THEN [ok |-> FALSE, err |-> MoveBlocked(Unwrap(pe)), moved |-> <<>>]
       ELSE IF bad # {}
       THEN [ok |-> FALSE, err |-> PushBlocked(to(CHOOSE i \in bad : \A j \in bad : i <= j)), moved |-> <<>>]
       ELSE [ok |-> TRUE, err |-> SimpleError(""),
             moved |-> [i \in 1..Len(chain) |->
                          [id |-> chain[i].id, from |-> chain[i].pos, to |-> to(i)]]]

\* validate_push once the chain is computed (lines 97-124).
validate_push_chain(state, direction, cur, chain) ==
    LET next_t == cur.t + 1
        player_to == step(cur, direction)
        ignored_ids == {chain[i].id : i \in 1..Len(chain)} \cup {state.player_id}
        pe == validate_player_move_with_ignores(state, player_to, ignored_ids)
        to(i) == Position(chain[i].pos.x + delta(direction)[1],
                          chain[i].pos.y + delta(direction)[2], next_t)
        bad == {i \in 1..Len(chain) :
                    IsSome(validate_entity_target(state.cube, to(i), ignored_ids))}
    IN IF chain = <<>>
       THEN [ok |-> FALSE, err |-> SimpleError("NothingToPush"), moved |-> <<>>]
       ELSE IF Len(chain) > state.config.max_push_chain
       THEN [ok |-> FALSE, err |-> SimpleError("PushChainTooLong"), moved |-> <<>>]
       ELSE IF IsSome(pe)
       THEN [ok |-> FALSE, err |-> MoveBlocked(Unwrap(pe)), moved |-> <<>>]
       ELSE IF bad # {}
       THEN [ok |-> FALSE, err |-> PushBlocked(to(CHOOSE i \in bad : \A j \in bad : i <= j)), moved |-> <<>>]
       ELSE [ok |-> TRUE, err |-> SimpleError(""),
             moved |-> [i \in 1..Len(chain) |->
                          [id |-> chain[i].id, from |-> chain[i].pos, to |-> to(i)]]]

validate_push(state, direction) ==
    validate_push_chain(state, direction, player_position(state),
        compute_push_chain(state.cube, player_position(state), direction,
                           state.config.max_push_chain))

\* validate_pull once the cell behind the player is read (lines 136-162).
validate_pull_entity(state, direction, cur, pull_pos, there) ==
    LET pull_entity == there[1]
        next_t == cur.t + 1
        player_to == step(cur, direction)
        ignored_ids == {pull_entity.id, state.player_id}
        pe == validate_player_move_with_ignores(state, player_to, ignored_ids)
        box_to == Position(cur.x, cur.y, next_t)
    IN IF there = <<>>
       THEN [ok |-> FALSE, err |-> SimpleError("NothingToPull"), moved |-> <<>>]
       ELSE IF ~is_pullable(pull_entity)
       THEN [ok |-> FALSE, err |-> SimpleError("NotPullable"), moved |-> <<>>]
       ELSE IF IsSome(pe)
       THEN [ok |-> FALSE, err |-> MoveBlocked(Unwrap(pe)), moved |-> <<>>]
       ELSE IF IsSome(validate_entity_target(state.cube, box_to, ignored_ids))
       THEN [ok |-> FALSE, err |-> PushBlocked(box_to), moved |-> <<>>]
       ELSE [ok |-> TRUE, err |-> SimpleError(""),
             moved |-> <<[id |-> pull_entity.id, from |-> pull_pos, to |-> box_to]>>]

validate_pull(state, direction) ==
    validate_pull_entity(state, direction, player_position(state),
        move_dir(player_position(state), opposite(direction)),
        entities_at(state.cube, move_dir(player_position(state), opposite(direction))))

(***************************************************************************)
(* game/actions.rs                                                         *)
(***************************************************************************)
Move(direction) == [kind |-> "Move", dir |-> direction]
Wait == [kind |-> "Wait", dir |-> ""]
UseRift == [kind |-> "UseRift", dir |-> ""]
Push(direction) == [kind |-> "Push", dir |-> direction]
Pull(direction) == [kind |-> "Pull", dir |-> direction]
Restart == [kind |-> "Restart", dir |-> ""]

\* GameState::valid_actions (game/state.rs): the Vec it returns, in order.
valid_actions(state) ==
    LET for_dir(dir) ==
            (IF validate_directional_move(state, dir).ok THEN <<Move(dir)>> ELSE <<>>)
            \o (IF validate_push(state, dir).ok THEN <<Push(dir)>> ELSE <<>>)
            \o (IF validate_pull(state, dir).ok THEN <<Pull(dir)>> ELSE <<>>)
    IN IF ~is_active(state) THEN <<>>
       ELSE for_dir("North") \o for_dir("South") \o for_dir("East") \o for_dir("West")
            \o (IF validate_wait(state).ok THEN <<Wait>> ELSE <<>>)
            \o (IF validate_rift(state).ok THEN <<UseRift>> ELSE <<>>)
            \o <<Restart>>

\* ActionOutcome: Moved{from,to}, Waited{at = to}, Rifted{from,to},
\* Pushed{player_to = to, pushed}, Pulled{player_to = to, pushed = <<pulled>>},
\* Restarted, Won{at = to}, Detected{by, seen_at = to}.
ActionOutcome(kind, from, to, pushed, by) ==
    [kind |-> kind, from |-> from, to |-> to, pushed |-> pushed, by |-> by]

\* Result<ActionResult, ActionError>.  input is the GameState the caller
\* passed in, as the call leaves it; state is the returned new state.
ActionOk(input, state, outcome, moved_entities, propagation) ==
    [ok |-> TRUE, err |-> SimpleError(""), input |-> input, state |-> Some(state),
     outcome |-> Some(outcome), moved_entities |-> moved_entities,
     propagation |-> propagation]
ActionErr(input, err) ==
    [ok |-> FALSE, err |-> err, input |-> input, state |-> None,
     outcome |-> None, moved_entities |-> <<>>, propagation |-> None]

push_history(state, action) == [state EXCEPT !.history = Append(@, action)]
\* A variant of advance_turn that takes the turn from the player's time.
advance_turn_to_player_time(state) ==
    [state EXCEPT !.turn = IF IsSome(current(state.world_line))
                           THEN Unwrap(current(state.world_line)).t ELSE 0]

\* `new_state.turn = new_state.world_line().current_turn().unwrap_or(0)`.
advance_turn(state) ==
    [state EXCEPT !.turn = IF IsSome(current_turn(state.world_line))
                           THEN Unwrap(current_turn(state.world_line)) ELSE 0]

\* A variant of respawn_player that leaves the player's old instance in place.
respawn_player_leaving_old(state, from, to) ==
    LET r == spawn_or_replace(state.cube, player(state.player_id, to))
    IN IF ~r.ok THEN [ok |-> FALSE, err |-> SimpleError("Internal"), state |-> state]
       ELSE [ok |-> TRUE, err |-> SimpleError(""), state |-> [state EXCEPT !.cube = r.cube]]

\* [ok, err, state]: state is the mutated clone.
\* The cube part of apply_player_move (lines 446-455); state has the
\* world line already extended.
respawn_player(state, from, to) ==
    \* `let _ = despawn_at(..)`: the error is dropped.
    LET r == spawn_or_replace(despawn_at(state.cube, state.player_id, from.t).cube,
                              player(state.player_id, to))
    IN IF ~r.ok THEN [ok |-> FALSE, err |-> SimpleError("Internal"), state |-> state]
       ELSE [ok |-> TRUE, err |-> SimpleError(""), state |-> [state EXCEPT !.cube = r.cube]]

\* apply_player_move once the world line answered (w): [ok, err, state],
\* state being the clone as the call leaves it.
player_moved(state, from, to, w) ==
    IF ~w.ok
    THEN [ok |-> FALSE, err |-> MoveBlocked(MoveError("SelfIntersection", to)),
          state |-> state]
    ELSE respawn_player([state EXCEPT !.world_line = w.wl], from, to)

apply_player_move(state, from, to, via_rift) ==
    player_moved(state, from, to,
                 IF via_rift THEN extend_via_rift(state.world_line, to)
                 ELSE extend(state.world_line, to))

\* A variant of finalized that marks the win but keeps the action's own outcome.
finalized_keeping_outcome(input, state, outcome, moved_entities, propagation, detection) ==
    IF IsSome(detection)
    THEN ActionOk(input, [state EXCEPT !.phase = "Detected"],
                  ActionOutcome("Detected", None,
                                Some(Unwrap(detection).player_position), <<>>,
                                Some(Unwrap(detection).enemy_id)),
                  moved_entities, propagation)
    ELSE IF at_exit(state)
    THEN ActionOk(input, [state EXCEPT !.phase = "Won"], outcome, moved_entities, propagation)
    ELSE ActionOk(input, state, outcome, moved_entities, propagation)

\* A variant of finalized that tests the exit before the detection.
finalized_exit_first(input, state, outcome, moved_entities, propagation, detection) ==
    IF at_exit(state)
    THEN ActionOk(input, [state EXCEPT !.phase = "Won"],
                  ActionOutcome("Won", None, Some(player_position(state)), <<>>, None),
                  moved_entities, propagation)
    ELSE IF IsSome(detection)
    THEN ActionOk(input, [state EXCEPT !.phase = "Detected"],
                  ActionOutcome("Detected", None,
                                Some(Unwrap(detection).player_position), <<>>,
                                Some(Unwrap(detection).enemy_id)),
                  moved_entities, propagation)
    ELSE ActionOk(input, state, outcome, moved_entities, propagation)

\* finalize_action once check_detection answered (lines 472-484).
finalized(input, state, outcome, moved_entities, propagation, detection) ==
    IF IsSome(detection)
    THEN ActionOk(input, [state EXCEPT !.phase = "Detected"],
                  ActionOutcome("Detected", None,
                                Some(Unwrap(detection).player_position), <<>>,
                                Some(Unwrap(detection).enemy_id)),
                  moved_entities, propagation)
    ELSE IF at_exit(state)
    THEN ActionOk(input, [state EXCEPT !.phase = "Won"],
                  ActionOutcome("Won", None, Some(player_position(state)), <<>>, None),
                  moved_entities, propagation)
    ELSE ActionOk(input, state, outcome, moved_entities, propagation)

finalize_action(input, state, outcome, moved_entities, propagation, enemy_order) ==
    IF outcome.kind \in {"Moved", "Waited", "Rifted", "Pushed", "Pulled"}
    THEN finalized(input, state, outcome, moved_entities, propagation,
                   check_detection(state.cube, state.world_line,
                                   state.config.detection, enemy_order))
    ELSE ActionOk(input, state, outcome, moved_entities, propagation)

\* apply_move once validate_directional_move answered (v); the clone
\* new_state is the value the later steps work on.
apply_move_validated(state, direction, from, v, nd) ==
    LET to == v.target
        m == apply_player_move(state, from, to, FALSE)
    IN IF ~v.ok THEN ActionErr(state, MoveBlocked(Unwrap(v.err)))
       ELSE IF ~m.ok THEN ActionErr(state, m.err)
       ELSE finalize_action(state, advance_turn(push_history(m.state, Move(direction))),
                            ActionOutcome("Moved", Some(from), Some(to), <<>>, None),
                            <<[id |-> state.player_id, from |-> from, to |-> to]>>,
                            None, nd.enemy_order)

apply_move(state, direction, nd) ==
    apply_move_validated(state, direction, player_position(state),
                         validate_directional_move(state, direction), nd)

apply_wait_validated(state, from, v, nd) ==
    LET at == v.target
        m == apply_player_move(state, from, at, FALSE)
    IN IF ~v.ok THEN ActionErr(state, MoveBlocked(Unwrap(v.err)))
       ELSE IF ~m.ok THEN ActionErr(state, m.err)
       ELSE finalize_action(state, advance_turn(push_history(m.state, Wait)),
                            ActionOutcome("Waited", None, Some(at), <<>>, None),
                            <<[id |-> state.player_id, from |-> from, to |-> at]>>,
                            None, nd.enemy_order)

apply_wait(state, nd) ==
    apply_wait_validated(state, player_position(state), validate_wait(state), nd)

apply_rift_validated(state, from, v, nd) ==
    LET to == Unwrap(v.target)
        m == apply_player_move(state, from, to, TRUE)
    IN IF ~v.ok THEN ActionErr(state, v.err)
       ELSE IF ~m.ok THEN ActionErr(state, m.err)
       ELSE finalize_action(state, advance_turn(push_history(m.state, UseRift)),
                            ActionOutcome("Rifted", Some(from), Some(to), <<>>, None),
                            <<[id |-> state.player_id, from |-> from, to |-> to]>>,
                            None, nd.enemy_order)

apply_rift(state, nd) ==
    apply_rift_validated(state, player_position(state), validate_rift(state), nd)

\* A variant of relocate_all that takes each moved entity out of the slice it
\* is pushed from.
RECURSIVE relocate_all_out_of_the_old_slice(_, _, _, _, _)
relocate_all_out_of_the_old_slice(acc, state, moved, i, current_t) ==
    IF i > Len(moved) \/ ~acc.ok THEN acc
    ELSE LET original == entity_at_time(state.cube, moved[i].id, current_t)
             r == spawn_or_replace(despawn_at(acc.cube, moved[i].id, current_t).cube,
                                   at_position(Unwrap(original), moved[i].to))
         IN IF original = None
            THEN [ok |-> FALSE, err |-> SimpleError("Internal"), cube |-> acc.cube]
            ELSE IF ~r.ok
            THEN [ok |-> FALSE, err |-> SimpleError("Internal"), cube |-> acc.cube]
            ELSE relocate_all_out_of_the_old_slice(
                     [ok |-> TRUE, err |-> SimpleError(""), cube |-> r.cube],
                     state, moved, i + 1, current_t)

\* The loop of apply_push over the moved entities (lines 344-356):
\* acc = [ok, err, cube].
RECURSIVE relocate_all(_, _, _, _, _)
relocate_all(acc, state, moved, i, current_t) ==
    IF i > Len(moved) \/ ~acc.ok THEN acc
    ELSE LET original == entity_at_time(state.cube, moved[i].id, current_t)
             r == spawn_or_replace(acc.cube, at_position(Unwrap(original), moved[i].to))
         IN IF original = None
            THEN [ok |-> FALSE, err |-> SimpleError("Internal"), cube |-> acc.cube]
            ELSE IF ~r.ok
            THEN [ok |-> FALSE, err |-> SimpleError("Internal"), cube |-> acc.cube]
            ELSE relocate_all([ok |-> TRUE, err |-> SimpleError(""), cube |-> r.cube],
                              state, moved, i + 1, current_t)

\* The part of nd.order that lists the entities the source slice yields.
source_order(cube, from_t, options, order) ==
    SelectSeq(order, LAMBDA id : id \in source_entity_ids(cube, from_t, options))

\* `.ok()` on the propagation result.
propagation_ok(p) ==
    IF p.ok THEN Some([warnings |-> p.warnings, affected_entities |-> p.affected_entities,
                       slices_updated |-> p.slices_updated])
    ELSE None

\* A variant of apply_push_relocated that skips the propagation.
apply_push_unpropagated(state, direction, cur, moved, moved_state, rel, nd) ==
    IF ~rel.ok THEN ActionErr(state, rel.err)
    ELSE finalize_action(state,
             advance_turn(push_history([moved_state EXCEPT !.cube = rel.cube],
                                       Push(direction))),
             ActionOutcome("Pushed", None, Some(step(cur, direction)),
                           [i \in 1..Len(moved) |-> [id |-> moved[i].id, to |-> moved[i].to]],
                           None),
             <<[id |-> state.player_id, from |-> cur, to |-> step(cur, direction)]>> \o moved,
             None, nd.enemy_order)

\* apply_push after the loop over the moved entities (lines 358-375):
\* moved_state is the clone with the player moved, rel the loop's result.
\* A variant of apply_push_relocated that fails when the propagation warns.
apply_push_refusing_warnings(state, direction, cur, moved, moved_state, rel, nd) ==
    LET player_to == step(cur, direction)
        options == PropagationOptions(Some({moved[i].id : i \in 1..Len(moved)}), None, FALSE)
        p == propagate_from_with_options(rel.cube, player_to.t, options,
                 source_order(rel.cube, player_to.t, options, nd.order))
    IN IF ~rel.ok THEN ActionErr(state, rel.err)
       ELSE IF p.warnings # <<>> THEN ActionErr(state, SimpleError("Internal"))
       ELSE finalize_action(state,
                advance_turn(push_history([moved_state EXCEPT !.cube = p.cube],
                                          Push(direction))),
                ActionOutcome("Pushed", None, Some(player_to),
                              [i \in 1..Len(moved) |-> [id |-> moved[i].id, to |-> moved[i].to]],
                              None),
                <<[id |-> state.player_id, from |-> cur, to |-> player_to]>> \o moved,
                propagation_ok(p), nd.enemy_order)

apply_push_relocated(state, direction, cur, moved, moved_state, rel, nd) ==
    LET player_to == step(cur, direction)
        options == PropagationOptions(Some({moved[i].id : i \in 1..Len(moved)}), None, FALSE)
        p == propagate_from_with_options(rel.cube, player_to.t, options,
                 source_order(rel.cube, player_to.t, options, nd.order))
    IN IF ~rel.ok THEN ActionErr(state, rel.err)
       ELSE finalize_action(state,
                advance_turn(push_history([moved_state EXCEPT !.cube = p.cube],
                                          Push(direction))),
                ActionOutcome("Pushed", None, Some(player_to),
                              [i \in 1..Len(moved) |-> [id |-> moved[i].id, to |-> moved[i].to]],
                              None),
                <<[id |-> state.player_id, from |-> cur, to |-> player_to]>> \o moved,
                propagation_ok(p), nd.enemy_order)

\* apply_push once validate_push answered (v).
apply_push_validated(state, direction, cur, v, nd) ==
    LET m == apply_player_move(state, cur, step(cur, direction), FALSE)
    IN IF ~v.ok THEN ActionErr(state, v.err)
       ELSE IF ~m.ok THEN ActionErr(state, m.err)
       ELSE apply_push_relocated(state, direction, cur, v.moved, m.state,
                relocate_all([ok |-> TRUE, err |-> SimpleError(""), cube |-> m.state.cube],
                             state, v.moved, 1, cur.t),
                nd)

\* A variant of apply_push that works on the borrowed state in place
\* instead of on a clone: the input is left as the call changed it.
apply_push_in_place(state, direction, nd) ==
    LET r == apply_push_validated(state, direction, player_position(state),
                                  validate_push(state, direction), nd)
    IN IF r.ok THEN [r EXCEPT !.input = Unwrap(r.state)] ELSE r

apply_push(state, direction, nd) ==
    apply_push_validated(state, direction, player_position(state),
                         validate_push(state, direction), nd)

\* A variant of apply_pull_relocated that skips the propagation.
apply_pull_unpropagated(state, direction, cur, pulled, moved_state, r, nd) ==
    IF ~r.ok THEN ActionErr(state, SimpleError("Internal"))
    ELSE finalize_action(state,
             advance_turn(push_history([moved_state EXCEPT !.cube = r.cube],
                                       Pull(direction))),
             ActionOutcome("Pulled", None, Some(step(cur, direction)),
                           <<[id |-> pulled.id, to |-> pulled.to]>>, None),
             <<[id |-> state.player_id, from |-> cur, to |-> step(cur, direction)], pulled>>,
             None, nd.enemy_order)

\* apply_pull after the pulled entity is written (lines 397-409): r is the
\* result of spawn_or_replace on the clone.
apply_pull_relocated(state, direction, cur, pulled, moved_state, r, nd) ==
    LET player_to == step(cur, direction)
        options == PropagationOptions(Some({pulled.id}), None, FALSE)
        p == propagate_entity(r.cube, pulled.id, player_to.t,
                 source_order(r.cube, player_to.t, options, nd.order))
    IN IF ~r.ok THEN ActionErr(state, SimpleError("Internal"))
       ELSE finalize_action(state,
                advance_turn(push_history([moved_state EXCEPT !.cube = p.cube],
                                          Pull(direction))),
                ActionOutcome("Pulled", None, Some(player_to),
                              <<[id |-> pulled.id, to |-> pulled.to]>>, None),
                <<[id |-> state.player_id, from |-> cur, to |-> player_to], pulled>>,
                propagation_ok(p), nd.enemy_order)

\* apply_pull once validate_pull answered (v).
apply_pull_validated(state, direction, cur, v, nd) ==
    LET pulled == v.moved[1]
        m == apply_player_move(state, cur, step(cur, direction), FALSE)
        original == entity_at_time(state.cube, pulled.id, cur.t)
    IN IF ~v.ok THEN ActionErr(state, v.err)
       ELSE IF ~m.ok THEN ActionErr(state, m.err)
       ELSE IF original = None THEN ActionErr(state, SimpleError("Internal"))
       ELSE apply_pull_relocated(state, direction, cur, pulled, m.state,
                spawn_or_replace(m.state.cube, at_position(Unwrap(original), pulled.to)),
                nd)

apply_pull(state, direction, nd) ==
    apply_pull_validated(state, direction, player_position(state),
                         validate_pull(state, direction), nd)

apply_restart(state) ==
    LET new_state == state
    IN ActionOk(state, reset_to_initial(new_state),
                ActionOutcome("Restarted", None, None, <<>>, None), <<>>, None)

\* A variant of apply_action without the phase test.
apply_action_in_any_phase(state, action, nd) ==
    CASE action.kind = "Move" -> apply_move(state, action.dir, nd)
      [] action.kind = "Wait" -> apply_wait(state, nd)
      [] action.kind = "UseRift" -> apply_rift(state, nd)
      [] action.kind = "Push" -> apply_push(state, action.dir, nd)
      [] action.kind = "Pull" -> apply_pull(state, action.dir, nd)
      [] action.kind = "Restart" -> apply_restart(state)

\* nd: the iteration orders the hash maps happen to have in this call,
\* [order (propagation source entities), enemy_order].
apply_action(state, action, nd) ==
    IF ~is_active(state) /\ action # Restart
    THEN ActionErr(state, GameNotActive(state.phase))
    ELSE CASE action.kind = "Move" -> apply_move(state, action.dir, nd)
           [] action.kind = "Wait" -> apply_wait(state, nd)
           [] action.kind = "UseRift" -> apply_rift(state, nd)
           [] action.kind = "Push" -> apply_push(state, action.dir, nd)
           [] action.kind = "Pull" -> apply_pull(state, action.dir, nd)
           [] action.kind = "Restart" -> apply_restart(state)

\* Result<ActionOutcome, ActionError> of preview_action: [ok, err, outcome].
preview_action(state, action) ==
    LET Ok(outcome) == [ok |-> TRUE, err |-> SimpleError(""), outcome |-> Some(outcome)]
        Err(e) == [ok |-> FALSE, err |-> e, outcome |-> None]
        from == player_position(state)
    IN CASE action.kind = "Move" ->
              LET v == validate_directional_move(state, action.dir)
              IN IF ~v.ok THEN Err(MoveBlocked(Unwrap(v.err)))
                 ELSE Ok(ActionOutcome("Moved", Some(from), Some(v.target), <<>>, None))
         [] action.kind = "Wait" ->
              LET v == validate_wait(state)
              IN IF ~v.ok THEN Err(MoveBlocked(Unwrap(v.err)))
                 ELSE Ok(ActionOutcome("Waited", None, Some(v.target), <<>>, None))
         [] action.kind = "UseRift" ->
              LET v == validate_rift(state)
              IN IF ~v.ok THEN Err(v.err)
                 ELSE Ok(ActionOutcome("Rifted", Some(from), v.target, <<>>, None))
         [] action.kind = "Push" ->
              LET v == validate_push(state, action.dir)
              IN IF ~v.ok THEN Err(v.err)
                 ELSE Ok(ActionOutcome("Pushed", None, Some(step(from, action.dir)),
                            [i \in 1..Len(v.moved) |->
                                [id |-> v.moved[i].id, to |-> v.moved[i].to]],
                            None))
         [] action.kind = "Pull" ->
              LET v == validate_pull(state, action.dir)
              IN IF ~v.ok THEN Err(v.err)
                 ELSE Ok(ActionOutcome("Pulled", None, Some(step(from, action.dir)),
                            <<[id |-> v.moved[1].id, to |-> v.moved[1].to]>>, None))
         [] action.kind = "Restart" ->
              Ok(ActionOutcome("Restarted", None, None, <<>>, None))

\* Result<(), ActionError> of validate_action: [ok, err].
validate_action(state, action) ==
    LET Ok == [ok |-> TRUE, err |-> SimpleError("")]
        Err(e) == [ok |-> FALSE, err |-> e]
    IN CASE action.kind = "Move" ->
              LET v == validate_directional_move(state, action.dir)
              IN IF ~v.ok THEN Err(MoveBlocked(Unwrap(v.err))) ELSE Ok
         [] action.kind = "Wait" ->
              LET v == validate_wait(state)
              IN IF ~v.ok THEN Err(MoveBlocked(Unwrap(v.err))) ELSE Ok
         [] action.kind = "UseRift" ->
              LET v == validate_rift(state) IN IF ~v.ok THEN Err(v.err) ELSE Ok
         [] action.kind = "Push" ->
              LET v == validate_push(state, action.dir) IN IF ~v.ok THEN Err(v.err) ELSE Ok
         [] action.kind = "Pull" ->
              LET v == validate_pull(state, action.dir) IN IF ~v.ok THEN Err(v.err) ELSE Ok
         [] action.kind = "Restart" -> Ok

(***************************************************************************)
(* render/app.rs: RenderApp::update with a pending action.                 *)
(***************************************************************************)
update(app_game, r) == IF r.ok THEN Unwrap(r.state) ELSE app_game

(***************************************************************************)
(* Levels: the cubes and configs a session is constructed from.  A level   *)
(* is a sequence of spawn calls on TimeCube::new(Width, Height, TimeDepth) *)
(* and a GameConfig.                                                       *)
(***************************************************************************)
Spawn(e) == [op |-> "spawn", entity |-> e]
SpawnAndPropagate(e) == [op |-> "spawn_and_propagate", entity |-> e]

RECURSIVE build_cube(_, _, _)
build_cube(cube, steps, i) ==
    IF i > Len(steps) THEN cube
    ELSE build_cube(IF steps[i].op = "spawn" THEN spawn(cube, steps[i].entity).cube
                    ELSE spawn_and_propagate(cube, steps[i].entity).cube,
                    steps, i + 1)

LevelCube(lvl) == build_cube(TimeCube_new(Width, Height, TimeDepth), lvl.steps, 1)

DefaultDetection == DetectionConfig("DiscreteDelay", 2, 8)

\* k boxes in a row east of the player, spawned at t = 0 only or propagated;
\* a two-box row may have a wall behind it at t = 1.
PushLevel(k, max, prop, walled) ==
    [name |-> "push",
     steps |-> <<Spawn(player("player", Position(0, 0, 0)))>>
               \o [i \in 1..k |->
                    [op |-> IF prop THEN "spawn_and_propagate" ELSE "spawn",
                     entity |-> pushable_box(<<"box1", "box2", "box3">>[i],
                                             Position(i, 0, 0))]]
               \o (IF walled THEN <<Spawn(wall("wall", Position(3, 0, 1)))>> ELSE <<>>),
     config |-> GameConfig(max, DefaultDetection)]

\* The levels: rows of boxes to push; a box west of the player, pullable or
\* only pushable; a rift north of the start, present from t = 1 on, with a
\* box that exists at t = 0 only in the rift's cell; an exit next to the
\* player inside the view of a stationary enemy; a wall east of the player
\* and an exit south of it; a box to push or to pull whose cell after the
\* move holds a wall at t = 2; a pushable entity whose patrol lies outside the
\* cube; a box with a wall behind it at t = 0 only; two boxes whose cells
\* after the push both hold a wall at t = 1; a box whose own cell and the one
\* behind it hold a wall at t = 1.
Levels ==
    {PushLevel(k, max, prop, FALSE) : k \in 1..3, max \in 1..2, prop \in BOOLEAN}
    \cup {PushLevel(2, 2, prop, TRUE) : prop \in BOOLEAN}
    \cup
    {[name |-> "pull",
      steps |-> <<Spawn(player("player", Position(1, 0, 0))),
                  [op |-> IF prop THEN "spawn_and_propagate" ELSE "spawn",
                   entity |-> IF pullable THEN pullable_box("box1", Position(0, 0, 0))
                              ELSE pushable_box("box1", Position(0, 0, 0))]>>,
      config |-> GameConfig(2, DefaultDetection)] :
        prop \in BOOLEAN, pullable \in BOOLEAN}
    \cup
    {[name |-> "rift",
      steps |-> <<Spawn(player("player", Position(1, 1, 0))),
                  Spawn(pullable_box("box1", Position(1, 0, 0))),
                  SpawnAndPropagate(rift("rift", Position(1, 0, 1), target, FALSE))>>,
      config |-> GameConfig(2, DefaultDetection)] :
        target \in {Position(0, 0, 0), Position(0, 0, 2), Position(3, 1, 1),
                    Position(1, 1, 0), Position(-1, 0, 0)}}
    \cup
    {[name |-> "detect",
      steps |-> <<Spawn(player("player", Position(0, 0, 0))),
                  SpawnAndPropagate(exit("exit", Position(1, 0, 0))),
                  SpawnAndPropagate(enemy("enemy", Position(3, 0, 0),
                                          PatrolData(<<SpatialPos(3, 0)>>, TRUE),
                                          VisionData(3)))>>,
      config |-> GameConfig(2, DetectionConfig(model, delay, 3))] :
        model \in {"DiscreteDelay", "LightCone"}, delay \in 1..2}
    \cup
    {[name |-> "wall",
      steps |-> <<Spawn(player("player", Position(0, 0, 0))),
                  SpawnAndPropagate(wall("wall", Position(1, 0, 0))),
                  SpawnAndPropagate(exit("exit", Position(0, 1, 0)))>>,
      config |-> GameConfig(2, DefaultDetection)]}
    \cup
    {[name |-> "clash",
      steps |-> steps,
      config |-> GameConfig(2, DefaultDetection)] :
        steps \in {<<Spawn(player("player", Position(0, 0, 0))),
                     Spawn(pushable_box("box1", Position(1, 0, 0))),
                     Spawn(wall("wall", Position(2, 0, 2)))>>,
                   <<Spawn(player("player", Position(1, 0, 0))),
                     Spawn(pullable_box("box1", Position(0, 0, 0))),
                     Spawn(wall("wall", Position(1, 0, 2)))>>,
                   <<Spawn(player("player", Position(0, 0, 0))),
                     Spawn(Entity("box1", Position(1, 0, 0),
                                  {"Pushable", "BlocksMovement", "TimePersistent"},
                                  Some(PatrolData(<<SpatialPos(-1, 0)>>, TRUE)), None, None))>>}}
    \cup
    {[name |-> "blocked",
      steps |-> <<Spawn(player("player", Position(0, 0, 0)))>> \o steps,
      config |-> GameConfig(2, DefaultDetection)] :
        steps \in {<<Spawn(pushable_box("box1", Position(1, 0, 0))),
                     Spawn(wall("wall", Position(2, 0, 0)))>>,
                   <<Spawn(pushable_box("box1", Position(1, 0, 0))),
                     Spawn(pushable_box("box2", Position(2, 0, 0))),
                     Spawn(wall("wall", Position(2, 0, 1))),
                     Spawn(wall("wall2", Position(3, 0, 1)))>>,
                   <<Spawn(pushable_box("box1", Position(1, 0, 0))),
                     Spawn(wall("wall", Position(1, 0, 1))),
                     Spawn(wall("wall2", Position(2, 0, 1)))>>}}

(***************************************************************************)
(* The session: RenderApp owning a GameState, one action per update.       *)
(***************************************************************************)
enemy_ids(cube) ==
    UNION {{e.id : e \in enemies(cube.slices[i])} : i \in 1..Len(cube.slices)}

\* The iteration orders a call may meet: of the entities it moves (whose
\* propagation order it may depend on) and of the enemies.
NdChoices(state, action) ==
    LET moved_ids ==
            IF ~is_active(state) THEN {}
            ELSE IF action.kind = "Push"
                 THEN {m.id : m \in SeqToSet(validate_push(state, action.dir).moved)}
            ELSE IF action.kind = "Pull"
                 THEN {m.id : m \in SeqToSet(validate_pull(state, action.dir).moved)}
            ELSE {}
    IN {[order |-> o, enemy_order |-> eo] :
            o \in Orderings(moved_ids), eo \in Orderings(enemy_ids(state.cube))}

\* What the session remembers of the last apply_action call.
CallRecord(action, r) ==
    [action |-> action, ok |-> r.ok, err |-> r.err, input |-> r.input,
     outcome |-> r.outcome, moved_entities |-> r.moved_entities,
     propagation |-> r.propagation]

Init ==
    /\ level \in Levels
    /\ game = Unwrap(GameState_new(LevelCube(level), level.config).state)
    /\ result = CallRecord([kind |-> "None", dir |-> ""], ActionErr(game, SimpleError("")))
    /\ line = WorldLine_empty
    /\ line_result = [op |-> "none", pos |-> None, ok |-> TRUE, err |-> ""]
    /\ world = <<>> /\ world_result = <<>>
    /\ tslice = <<>> /\ tslice_result = <<>>
    /\ sight = <<>>

\* The results apply_action may return for the session's game.
Calls(action) == {apply_action(game, action, nd) : nd \in NdChoices(game, action)}

\* RenderApp::update on the result r of the pending action.
Return(action, r) ==
    /\ game' = update(game, r)
    /\ result' = CallRecord(action, r)
    /\ UNCHANGED <<level, line, line_result, world, world_result, tslice, tslice_result, sight>>

DoMove ==
    \E d \in Direction :
       /\ game.turn < MaxTurn
       /\ \E r \in Calls(Move(d)) : Return(Move(d), r)

DoWait ==
    /\ game.turn < MaxTurn
    /\ \E r \in Calls(Wait) : Return(Wait, r)

DoUseRift ==
    /\ game.turn < MaxTurn
    /\ \E r \in Calls(UseRift) : Return(UseRift, r)

DoPush ==
    \E d \in Direction :
       /\ game.turn < MaxTurn
       /\ \E r \in Calls(Push(d)) : Return(Push(d), r)

DoPull ==
    \E d \in Direction :
       /\ game.turn < MaxTurn
       /\ \E r \in Calls(Pull(d)) : Return(Pull(d), r)

DoRestart == \E r \in Calls(Restart) : Return(Restart, r)

Next == DoMove \/ DoWait \/ DoUseRift \/ DoPush \/ DoPull \/ DoRestart

Spec == Init /\ [][Next]_vars

(***************************************************************************)
(* The world line on its own: extend / extend_via_rift from new(start).    *)
(***************************************************************************)
\* The positions a world line is fed: one row of cells over a few time steps.
WLPositions == {Position(x, 0, t) : x \in 0..WLMaxX, t \in 0..WLMaxT}

InitWL ==
    /\ \E start \in WLPositions : line = WorldLine_new(start)
    /\ line_result = [op |-> "none", pos |-> None, ok |-> TRUE, err |-> ""]
    /\ world = <<>> /\ world_result = <<>>
    /\ tslice = <<>> /\ tslice_result = <<>>
    /\ sight = <<>>
    /\ level = <<>>
    /\ game = <<>>
    /\ result = <<>>

LineCall(op, pos, r) ==
    /\ line' = r.wl
    /\ line_result' = [op |-> op, pos |-> Some(pos), ok |-> r.ok, err |-> r.err]
    /\ UNCHANGED <<game, result, level, world, world_result, tslice, tslice_result, sight>>

Extend ==
    /\ Len(line.path) < MaxPath
    /\ \E pos \in WLPositions : LineCall("extend", pos, extend(line, pos))

ExtendViaRift ==
    /\ Len(line.path) < MaxPath
    /\ \E pos \in WLPositions : LineCall("extend_via_rift", pos, extend_via_rift(line, pos))

NextWL == Extend \/ ExtendViaRift

SpecWL == InitWL /\ [][NextWL]_vars

(***************************************************************************)
(* Detection: check_detection called, as the tests of core/detection.rs    *)
(* do, on a cube with one enemy and a world line, while the line grows and *)
(* walls are spawned into single slices.                                   *)
(***************************************************************************)
PlayerCells == {SpatialPos(0, 0), SpatialPos(1, 0), SpatialPos(1, 1)}
EnemyCells == {SpatialPos(3, 0), SpatialPos(2, 0)}
WallCells ==
    {SpatialPos(0, 0), SpatialPos(1, 0), SpatialPos(2, 0), SpatialPos(2, 1), SpatialPos(3, 0)}

\* The cubes checked: a stationary enemy in every slice, a patrolling one
\* propagated by propagate_all, and an enemy present in slice 1 only.
SightCubes ==
    LET new == TimeCube_new(Width, Height, TimeDepth)
    IN UNION {
        {spawn_and_propagate(new,
             enemy("enemy", Position(3, 0, 0),
                   PatrolData(<<SpatialPos(3, 0)>>, TRUE), VisionData(ls))).cube,
         propagate_all(
             spawn(new, enemy("enemy", Position(3, 0, 0),
                              PatrolData(<<SpatialPos(3, 0), SpatialPos(2, 0)>>, TRUE),
                              VisionData(ls))).cube,
             <<"enemy">>).cube,
         spawn(new, enemy("enemy", Position(2, 0, 1),
                          PatrolData(<<SpatialPos(2, 0)>>, TRUE), VisionData(ls))).cube}
        : ls \in {1, 3}}

SightConfigs ==
    {DetectionConfig("DiscreteDelay", 1, 3), DetectionConfig("DiscreteDelay", 2, 3),
     DetectionConfig("LightCone", 2, 3)}

\* The state after one call of check_detection: placed is the position of
\* the wall spawned just before the call, if any.
Sight(config, cube, world_line, placed) ==
    [config |-> config, placed |-> placed,
     detection |-> check_detection(cube, world_line, config, <<"enemy">>)]

InitDetect ==
    /\ world \in SightCubes
    /\ line = WorldLine_new(Position(0, 0, 0))
    /\ \E config \in SightConfigs : sight = Sight(config, world, line, None)
    /\ world_result = <<>> /\ line_result = <<>>
    /\ tslice = <<>> /\ tslice_result = <<>>
    /\ level = <<>>
    /\ game = <<>>
    /\ result = <<>>

Looked(cube, world_line, placed) ==
    /\ world' = cube
    /\ line' = world_line
    /\ sight' = Sight(sight.config, cube, world_line, placed)
    /\ UNCHANGED <<game, result, level, line_result, world_result, tslice, tslice_result>>

StepTo ==
    /\ Len(line.path) < MaxPath
    /\ \E c \in PlayerCells, t \in 0..(TimeDepth - 1) :
          /\ extend(line, Position(c.x, c.y, t)).ok
          /\ Looked(world, extend(line, Position(c.x, c.y, t)).wl, None)

RiftTo ==
    /\ Len(line.path) < MaxPath
    /\ \E c \in PlayerCells :
          /\ extend_via_rift(line, Position(c.x, c.y, 0)).ok
          /\ Looked(world, extend_via_rift(line, Position(c.x, c.y, 0)).wl, None)

\* One wall is placed in a run.
PlaceWall ==
    \E c \in WallCells, t \in 0..(TimeDepth - 1) :
        /\ \A i \in 1..Len(world.slices) : ~IsSome(slice_entity(world.slices[i], "wall"))
        /\ spawn(world, wall("wall", Position(c.x, c.y, t))).ok
        /\ Looked(spawn(world, wall("wall", Position(c.x, c.y, t))).cube, line,
                  Some(Position(c.x, c.y, t)))

NextDetect == StepTo \/ RiftTo \/ PlaceWall

SpecDetect == InitDetect /\ [][NextDetect]_vars

(***************************************************************************)
(* The cube: the methods of TimeCube and the propagation functions called  *)
(* in any order on one cube.                                               *)
(***************************************************************************)
\* Times given to the calls: the first two slices and a time past the last.
CubeTimes == {0, 1, TimeDepth}

\* Entities given to the calls: a box at a position of each of the first two
\* slices and at two positions outside the cube, a non-persistent entity of
\* the same id, and an enemy whose patrol leaves the cube at odd times.
CubeEntities ==
    {pushable_box("a", pos) : pos \in {Position(0, 0, 0), Position(1, 0, 1)}}
        \cup {pushable_box("a", Position(Width, 0, 0)),
              pushable_box("a", Position(0, 0, TimeDepth)),
              player("a", Position(0, 0, 0)),
              enemy("b", Position(0, 0, 0),
                    PatrolData(<<SpatialPos(0, 0), SpatialPos(-1, 0)>>, TRUE), VisionData(1))}

CubeOptions ==
    {PropagationOptions(None, None, FALSE), PropagationOptions(None, None, TRUE),
     PropagationOptions(Some({"a"}), Some(1), FALSE)}

\* The last call: its name, the entity or the id and time it was given,
\* whether it succeeded and the entities it returned; for a propagation, its
\* options and the order in which the source slice yielded its entities.
CubeCall(op, entity, id, t, r, removed) ==
    [op |-> op, entity |-> entity, id |-> id, t |-> t, ok |-> r.ok, err |-> r.err,
     removed |-> removed, options |-> None, order |-> <<>>]

InitCube ==
    /\ world = TimeCube_new(Width, Height, TimeDepth)
    /\ world_result = CubeCall("new", None, "", 0, CubeOk(world), <<>>)
    /\ line = <<>> /\ line_result = <<>>
    /\ tslice = <<>> /\ tslice_result = <<>>
    /\ sight = <<>>
    /\ level = <<>>
    /\ game = <<>>
    /\ result = <<>>

Called(op, entity, id, t, r, removed) ==
    /\ world' = r.cube
    /\ world_result' = CubeCall(op, entity, id, t, r, removed)
    /\ UNCHANGED <<game, result, level, line, line_result, tslice, tslice_result, sight>>

Propagated(op, from_t, options, order, r) ==
    /\ world' = r.cube
    /\ world_result' = [CubeCall(op, None, "", from_t, r, <<>>)
                          EXCEPT !.options = Some(options), !.order = order]
    /\ UNCHANGED <<game, result, level, line, line_result, tslice, tslice_result, sight>>

CallSpawn ==
    \E e \in CubeEntities : Called("spawn", Some(e), e.id, e.position.t, spawn(world, e), <<>>)

CallSpawnAndPropagate ==
    \E e \in CubeEntities :
        Called("spawn_and_propagate", Some(e), e.id, e.position.t,
               spawn_and_propagate(world, e), <<>>)

CallSpawnOrReplace ==
    \E e \in CubeEntities :
        Called("spawn_or_replace", Some(e), e.id, e.position.t, spawn_or_replace(world, e), <<>>)

CallDespawnAt ==
    \E id \in {"a", "b"}, t \in CubeTimes :
        Called("despawn_at", None, id, t, despawn_at(world, id, t), <<>>)

CallDespawnAll ==
    \E id \in {"a", "b"} :
        Called("despawn_all", None, id, 0, CubeOk(despawn_all(world, id).cube),
               despawn_all(world, id).removed)

\* propagate_slice and propagate_all are propagate_from_with_options with
\* the options they fix.
CallPropagateSlice ==
    \E from_t \in CubeTimes :
        \E order \in Orderings(source_entity_ids(world, from_t,
                                                  PropagationOptions(None, None, FALSE))) :
            Propagated("propagate_slice", from_t,
                       PropagationOptions(None, Some(from_t + 1), FALSE), order,
                       propagate_slice(world, from_t, order))

CallPropagateAll ==
    \E order \in Orderings(source_entity_ids(world, 0, PropagationOptions(None, None, FALSE))) :
        Propagated("propagate_all", 0, PropagationOptions(None, None, FALSE), order,
                   propagate_all(world, order))

CallPropagateFromWithOptions ==
    \E from_t \in CubeTimes, options \in CubeOptions :
        \E order \in Orderings(source_entity_ids(world, from_t, options)) :
            Propagated("propagate_from_with_options", from_t, options, order,
                       propagate_from_with_options(world, from_t, options, order))

NextCube ==
    \/ CallSpawn
    \/ CallSpawnAndPropagate
    \/ CallSpawnOrReplace
    \/ CallDespawnAt
    \/ CallDespawnAll
    \/ CallPropagateSlice
    \/ CallPropagateAll
    \/ CallPropagateFromWithOptions

SpecCube == InitCube /\ [][NextCube]_vars

(***************************************************************************)
(* The slice: add_entity, remove_entity and move_entity called in any      *)
(* order on one TimeSlice.                                                 *)
(***************************************************************************)
SliceIds == {"a", "b"}

\* Cells given to the calls; the last lies outside the slice, which neither
\* add_entity nor move_entity tests.
SliceCells == {SpatialPos(0, 0), SpatialPos(1, 0), SpatialPos(Width, 0)}

\* The last call: the id and cell it was given, the cell the id was at
\* before, and whether the call found the id (for add_entity, an instance to
\* replace; for remove_entity, Some; for move_entity, the value returned).
SliceCall(op, id, to, before, found) ==
    [op |-> op, id |-> id, to |-> to,
     from |-> IF IsSome(slice_entity(before, id))
              THEN Some(spatial(Unwrap(slice_entity(before, id)).position)) ELSE None,
     found |-> found]

InitSlice ==
    /\ tslice = TimeSlice_new(0, Width, Height)
    /\ tslice_result = [op |-> "new", id |-> "", to |-> None, from |-> None, found |-> FALSE]
    /\ world = <<>> /\ world_result = <<>>
    /\ line = <<>> /\ line_result = <<>>
    /\ sight = <<>>
    /\ level = <<>>
    /\ game = <<>>
    /\ result = <<>>

SliceCalled(op, id, to, after, found) ==
    /\ tslice' = after
    /\ tslice_result' = SliceCall(op, id, to, tslice, found)
    /\ UNCHANGED <<game, result, level, line, line_result, world, world_result, sight>>

CallAddEntity ==
    \E id \in SliceIds, c \in SliceCells :
        SliceCalled("add_entity", id, Some(c),
                    add_entity(tslice, pushable_box(id, Position(c.x, c.y, tslice.t))),
                    IsSome(slice_entity(tslice, id)))

CallRemoveEntity ==
    \E id \in SliceIds : SliceCalled("remove_entity", id, None, remove_entity(tslice, id),
                    IsSome(slice_entity(tslice, id)))

CallMoveEntity ==
    \E id \in SliceIds, c \in SliceCells :
        SliceCalled("move_entity", id, Some(c), move_entity(tslice, id, c).slice,
                    move_entity(tslice, id, c).moved)

NextSlice == CallAddEntity \/ CallRemoveEntity \/ CallMoveEntity

SpecSlice == InitSlice /\ [][NextSlice]_vars

(***************************************************************************)
(* Construction: a cube filled by spawn calls and handed to GameState::new, *)
(* as the tests of game/state.rs do.                                       *)
(***************************************************************************)
\* Entities spawned before the construction: a player id in two slices, a
\* second player id, a box, a wall.
NewEntities ==
    {player("p", Position(0, 0, 0)), player("p", Position(1, 0, 1)),
     player("q", Position(1, 1, 0)), player("q", Position(0, 1, TimeDepth - 1)),
     pushable_box("box1", Position(1, 0, 0)), wall("wall", Position(2, 0, 1))}

NewConfigs == {GameConfig(max, DefaultDetection) : max \in 1..2}

InitNew ==
    /\ world = TimeCube_new(Width, Height, TimeDepth)
    /\ world_result = [op |-> "TimeCube::new", ok |-> TRUE, err |-> "", state |-> None,
                       config |-> None]
    /\ line = <<>> /\ line_result = <<>>
    /\ tslice = <<>> /\ tslice_result = <<>>
    /\ sight = <<>>
    /\ level = <<>>
    /\ game = <<>>
    /\ result = <<>>

\* cube.spawn(e).unwrap() while the level is set up.
SpawnForNew ==
    \E e \in NewEntities :
        /\ spawn(world, e).ok
        /\ world' = spawn(world, e).cube
        /\ world_result' = [op |-> "spawn", ok |-> TRUE, err |-> "", state |-> None,
                            config |-> None]
        /\ UNCHANGED <<game, result, level, line, line_result, tslice, tslice_result, sight>>

\* GameState::new(cube.clone(), config): the cube stays with the caller.
CallGameStateNew ==
    \E config \in NewConfigs :
        /\ world_result' = [op |-> "GameState::new", ok |-> GameState_new(world, config).ok,
                            err |-> GameState_new(world, config).err,
                            state |-> GameState_new(world, config).state,
                            config |-> Some(config)]
        /\ UNCHANGED <<world, game, result, level, line, line_result, tslice, tslice_result,
                       sight>>

NextNew == SpawnForNew \/ CallGameStateNew

SpecNew == InitNew /\ [][NextNew]_vars

(***************************************************************************)
(* The world line on a grid: extend / extend_via_rift on WorldLine::empty() *)
(* or WorldLine::new(start), with targets in two rows of cells.            *)
(***************************************************************************)
LineCells == {SpatialPos(0, 0), SpatialPos(1, 0), SpatialPos(0, 1), SpatialPos(1, 1)}
LineTimes == 0..2
LinePositions == {Position(c.x, c.y, t) : c \in LineCells, t \in LineTimes}

InitLine ==
    /\ line \in {WorldLine_empty} \cup {WorldLine_new(start) : start \in LinePositions}
    /\ line_result = [op |-> "none", pos |-> None, ok |-> TRUE, err |-> ""]
    /\ world = <<>> /\ world_result = <<>>
    /\ tslice = <<>> /\ tslice_result = <<>>
    /\ sight = <<>>
    /\ level = <<>>
    /\ game = <<>>
    /\ result = <<>>

ExtendOnGrid ==
    /\ Len(line.path) < MaxPath
    /\ \E pos \in LinePositions : LineCall("extend", pos, extend(line, pos))

ExtendViaRiftOnGrid ==
    /\ Len(line.path) < MaxPath
    /\ \E pos \in LinePositions : LineCall("extend_via_rift", pos, extend_via_rift(line, pos))

NextLine == ExtendOnGrid \/ ExtendViaRiftOnGrid

SpecLine == InitLine /\ [][NextLine]_vars

(***************************************************************************)
(* Propagation: a cube filled by spawn calls, then propagate_from_with_     *)
(* options called on it with and without skip_collisions.                  *)
(***************************************************************************)
\* Entities spawned before the propagation: a box; a movement-blocking
\* patroller that walks into the box's cell; a non-looping patroller; a wall
\* that exists from slice 1 on in the box's cell; an exit and a rift sharing a
\* cell.
PropEntities ==
    {pushable_box("box", Position(0, 0, 0)),
     Entity("guard", Position(1, 0, 0), {"BlocksMovement", "TimePersistent"},
            Some(PatrolData(<<SpatialPos(1, 0), SpatialPos(0, 0)>>, TRUE)), None, None),
     enemy("scout", Position(2, 0, 0),
           PatrolData(<<SpatialPos(2, 0), SpatialPos(3, 0)>>, FALSE), VisionData(1)),
     wall("wall", Position(0, 0, 1)),
     exit("exit", Position(2, 1, 0)),
     rift("rift", Position(2, 1, 0), Position(0, 1, 0), FALSE)}

PropOptions == {PropagationOptions(None, None, skip) : skip \in BOOLEAN}

InitProp ==
    /\ world = TimeCube_new(Width, Height, TimeDepth)
    /\ world_result = [op |-> "TimeCube::new", from_t |-> 0, options |-> None, order |-> <<>>,
                       before |-> None, ok |-> TRUE, warnings |-> <<>>]
    /\ line = <<>> /\ line_result = <<>>
    /\ tslice = <<>> /\ tslice_result = <<>>
    /\ sight = <<>>
    /\ level = <<>>
    /\ game = <<>>
    /\ result = <<>>

\* cube.spawn(e).unwrap() while the cube is set up.
SpawnForProp ==
    \E e \in PropEntities :
        /\ world_result.op \in {"TimeCube::new", "spawn"}
        /\ spawn(world, e).ok
        /\ world' = spawn(world, e).cube
        /\ world_result' = [op |-> "spawn", from_t |-> e.position.t, options |-> None,
                            order |-> <<>>, before |-> None, ok |-> TRUE, warnings |-> <<>>]
        /\ UNCHANGED <<game, result, level, line, line_result, tslice, tslice_result, sight>>

\* propagate_from_with_options(&mut cube, from_t, options); before is the
\* cube as the call found it.
PropagateCall(from_t, options, order, r) ==
    /\ world' = r.cube
    /\ world_result' = [op |-> "propagate_from_with_options", from_t |-> from_t,
                        options |-> Some(options), order |-> order, before |-> Some(world),
                        ok |-> r.ok, warnings |-> r.warnings]
    /\ UNCHANGED <<game, result, level, line, line_result, tslice, tslice_result, sight>>

\* One propagation is run on each cube that the spawn calls build.
CallPropagate ==
    \E from_t \in {0, 1}, options \in PropOptions :
        /\ world_result.op \in {"TimeCube::new", "spawn"}
        /\ \E order \in Orderings(source_entity_ids(world, from_t, options)) :
               PropagateCall(from_t, options, order,
                             propagate_from_with_options(world, from_t, options, order))

NextProp == SpawnForProp \/ CallPropagate

SpecProp == InitProp /\ [][NextProp]_vars

(***************************************************************************)
(* A second set of sessions: the same RenderApp loop on levels with cells  *)
(* shared by several entities, two-way rifts and a way back in time.       *)
(***************************************************************************)
\* "behind": the player at (1,0,0) and, in the cell west of it, an exit
\* spawned before a pullable box, a pullable box spawned before an exit, a
\* pushable box and an exit, or nothing.  "link": a rift at A = (0,1,1) with
\* target B = (1,0,1), one-way or bidirectional; the player starts next to
\* both.  "return": two boxes in a row at t = 0 only, the player south of the
\* second one, and in the cell above the second box a rift at t = 1 that
\* leads back to (0,0,0), west of the row.
PlayLevels ==
    {[name |-> "behind",
      steps |-> <<Spawn(player("player", Position(1, 0, 0)))>> \o steps,
      config |-> GameConfig(2, DefaultDetection)] :
        steps \in {<<Spawn(exit("exit", Position(0, 0, 0))),
                     Spawn(pullable_box("box1", Position(0, 0, 0)))>>,
                   <<Spawn(pullable_box("box1", Position(0, 0, 0))),
                     Spawn(exit("exit", Position(0, 0, 0)))>>,
                   <<Spawn(pushable_box("box1", Position(0, 0, 0))),
                     Spawn(exit("exit", Position(0, 0, 0)))>>,
                   <<>>}}
    \cup
    {[name |-> "link",
      steps |-> <<Spawn(player("player", Position(0, 0, 0))),
                  Spawn(rift("rift", Position(0, 1, 1), Position(1, 0, 1), bidirectional))>>,
      config |-> GameConfig(2, DefaultDetection)] :
        bidirectional \in BOOLEAN}
    \cup
    {[name |-> "return",
      steps |-> <<Spawn(player("player", Position(2, 1, 0))),
                  Spawn(pushable_box("box1", Position(1, 0, 0))),
                  Spawn(pushable_box("box2", Position(2, 0, 0))),
                  Spawn(rift("rift", Position(2, 0, 1), Position(0, 0, 0), FALSE))>>,
      config |-> GameConfig(2, DefaultDetection)]}

InitPlay ==
    /\ level \in PlayLevels
    /\ game = Unwrap(GameState_new(LevelCube(level), level.config).state)
    /\ result = CallRecord([kind |-> "None", dir |-> ""], ActionErr(game, SimpleError("")))
    /\ line = WorldLine_empty
    /\ line_result = [op |-> "none", pos |-> None, ok |-> TRUE, err |-> ""]
    /\ world = <<>> /\ world_result = <<>>
    /\ tslice = <<>> /\ tslice_result = <<>>
    /\ sight = <<>>

SpecPlay == InitPlay /\ [][Next]_vars

(***************************************************************************)
(* Play to the end: sessions on a cube of two by two cells and two slices, *)
(* any number of actions, no Restart.                                      *)
(***************************************************************************)
\* Rifts in the four cells of slice 1, each leading back to a cell of slice
\* 0: from above the start to the east, on to the south-east, to the
\* south-west, and back to the start.
EndRifts ==
    <<rift("rift1", Position(0, 0, 1), Position(1, 0, 0), FALSE),
      rift("rift2", Position(1, 0, 1), Position(1, 1, 0), FALSE),
      rift("rift3", Position(1, 1, 1), Position(0, 1, 0), FALSE),
      rift("rift4", Position(0, 1, 1), Position(0, 0, 0), FALSE)>>

\* The player at (0,0,0) with the first k rifts, and with or without a box
\* east of the start that exists at t = 0 only.
EndLevels ==
    {[name |-> "end",
      steps |-> <<Spawn(player("player", Position(0, 0, 0)))>>
                \o [i \in 1..k |-> Spawn(EndRifts[i])]
                \o (IF boxed THEN <<Spawn(pushable_box("box1", Position(1, 0, 0)))>>
                    ELSE <<>>),
      config |-> GameConfig(2, DefaultDetection)] :
        k \in 0..Len(EndRifts), boxed \in BOOLEAN}

InitEnd ==
    /\ level \in EndLevels
    /\ game = Unwrap(GameState_new(build_cube(TimeCube_new(2, 2, 2), level.steps, 1),
                                   level.config).state)
    /\ result = CallRecord([kind |-> "None", dir |-> ""], ActionErr(game, SimpleError("")))
    /\ line = WorldLine_empty
    /\ line_result = [op |-> "none", pos |-> None, ok |-> TRUE, err |-> ""]
    /\ world = <<>> /\ world_result = <<>>
    /\ tslice = <<>> /\ tslice_result = <<>>
    /\ sight = <<>>

NonRestartActions ==
    {Move(d) : d \in Direction} \cup {Push(d) : d \in Direction}
        \cup {Pull(d) : d \in Direction} \cup {Wait, UseRift}

\* RenderApp::update with any pending action but Restart, however many
\* actions went before.
PlayOn == \E a \in NonRestartActions : \E r \in Calls(a) : Return(a, r)

NextEnd == PlayOn

SpecEnd == InitEnd /\ [][NextEnd]_vars

(***************************************************************************)
(* Properties.                                                             *)
(***************************************************************************)
NoRepeat(path) == \A i, j \in 1..Len(path) : i # j => path[i] # path[j]

\* The target of the world-line call just made was already in the path.
TargetAlreadyInPath ==
    /\ line_result'.pos # None
    /\ Unwrap(line_result'.pos) \in SeqToSet(line.path)

\* C1 (amended): along every sequence of extend / extend_via_rift calls from
\* WorldLine::new(start) the path never holds the same (x,y,t) twice and the
\* visited set is the set of the path; a call whose target is already in the
\* path fails and leaves path and visited unchanged; the error is
\* SelfIntersection for extend_via_rift and for an extend whose target is a
\* valid step from the current position, InvalidStep for any other extend.
C1_WorldLineNeverSelfIntersects ==
    [][/\ NoRepeat(line'.path)
       /\ line'.visited = SeqToSet(line'.path)
       /\ TargetAlreadyInPath =>
             /\ ~line_result'.ok
             /\ line' = line
             /\ line_result'.err =
                   IF line_result'.op = "extend"
                      /\ ~is_valid_step_from(Unwrap(line_result'.pos), Unwrap(current(line)))
                   THEN "InvalidStep" ELSE "SelfIntersection"]_vars

\* C1 as stated: every call whose target is already in the path returns
\* SelfIntersection and leaves the world line unchanged.
C1_RepeatedTargetIsSelfIntersection ==
    [][/\ NoRepeat(line'.path)
       /\ TargetAlreadyInPath =>
             /\ line_result'.err = "SelfIntersection"
             /\ line' = line]_vars

\* A rift jump back to the start, recorded one turn before the current
\* position, was refused with SelfIntersection.
C1_RejectedRevisit ==
    /\ Len(line.path) = 2
    /\ ~line_result.ok
    /\ line_result.err = "SelfIntersection"
    /\ line_result.pos = Some(line.path[1])
    /\ line_result.op = "extend_via_rift"

PlayerActionKinds == {"Move", "Wait", "UseRift", "Push", "Pull"}

\* C2: in a state whose phase is not Playing, Move, Wait, UseRift, Push and
\* Pull return GameNotActive carrying that phase and yield no new state (the
\* session keeps its state); Restart is accepted.
C2_InactivePhaseRejectsPlayerActions ==
    [][game.phase # "Playing" =>
          IF result'.action = Restart
          THEN result'.ok
          ELSE /\ ~result'.ok
               /\ result'.err = GameNotActive(game.phase)
               /\ result'.outcome = None
               /\ game' = game]_vars

\* A Push was refused with GameNotActive in a Detected state.
C2_PushRefusedWhenDetected ==
    /\ game.phase = "Detected"
    /\ result.action.kind = "Push"
    /\ ~result.ok
    /\ result.err = GameNotActive("Detected")

DetectionReported(state) ==
    \E order \in Orderings(enemy_ids(state.cube)) :
        IsSome(check_detection(state.cube, state.world_line, state.config.detection, order))

\* C4: after a successful Move, Wait, UseRift, Push or Pull the phase and the
\* outcome are Detected whenever the detection check on the new state reports
\* a detection, also when the player stands on an exit; they are Won only
\* when it reports none and the player stands on an exit; otherwise the
\* phase stays Playing and the outcome is the action's own.
C4_DetectionBeforeExit ==
    (result.ok /\ result.action.kind \in PlayerActionKinds) =>
        /\ DetectionReported(game) =>
              game.phase = "Detected" /\ Unwrap(result.outcome).kind = "Detected"
        /\ (~DetectionReported(game) /\ at_exit(game)) =>
              game.phase = "Won" /\ Unwrap(result.outcome).kind = "Won"
        /\ (~DetectionReported(game) /\ ~at_exit(game)) =>
              /\ game.phase = "Playing"
              /\ Unwrap(result.outcome).kind \notin {"Won", "Detected"}

\* A Move put the player on the exit on the turn it was detected.
C4_DetectedOnExit ==
    /\ result.ok
    /\ result.action.kind = "Move"
    /\ at_exit(game)
    /\ DetectionReported(game)
    /\ game.phase = "Detected"

\* The state GameState::new builds for the session's level.
ConstructedState == Unwrap(GameState_new(LevelCube(level), level.config).state)

\* C5: the stored initial cube and world line are always those captured at
\* construction; Restart succeeds in every reachable state and yields a state
\* with that cube and world line, phase Playing, turn 0 and empty history.
C5_RestartRestoresSnapshot ==
    /\ game.initial_cube = LevelCube(level)
    /\ game.initial_world_line = ConstructedState.world_line
    /\ result.action = Restart =>
          /\ result.ok
          /\ Unwrap(result.outcome).kind = "Restarted"
          /\ game.cube = LevelCube(level)
          /\ game.world_line = ConstructedState.world_line
          /\ game.phase = "Playing"
          /\ game.turn = 0
          /\ game.history = <<>>

\* Restart was applied to a state reached by a Push that rewrote the cube.
C5_RestartAfterPush ==
    /\ result.action = Restart
    /\ result.input.history # <<>>
    /\ result.input.history[1].kind = "Push"
    /\ result.input.cube # game.cube
    /\ result.input.phase = "Playing"

\* A movement-blocking entity stands in the cell of pos in the slice pos.t.
BlockerAt(cube, pos) ==
    /\ pos.t + 1 \in DOMAIN cube.slices
    /\ \E e \in all_entities(cube.slices[pos.t + 1]) :
          blocks_movement(e) /\ e.position.x = pos.x /\ e.position.y = pos.y

\* The cell the player aims at with Move(dir) or Wait, one time step later.
MoveTargetOf(state, action) ==
    LET cur == player_position(state)
    IN IF action.kind = "Wait" THEN Position(cur.x, cur.y, cur.t + 1)
       ELSE Position(cur.x + delta(action.dir)[1], cur.y + delta(action.dir)[2], cur.t + 1)

\* C6: in phase Playing, Move(dir) and Wait succeed exactly when the target
\* has t+1 < time_depth, x and y inside the cube, no movement-blocking entity
\* in its cell of slice t+1, and is not in the world line; a failure is
\* MoveBlocked wrapping the first violated condition in that order:
\* TimeOverflow, OutOfBounds, Blocked, SelfIntersection.
C6_MoveAndWaitPreconditions ==
    [][(game.phase = "Playing" /\ result'.action.kind \in {"Move", "Wait"}) =>
          LET target == MoveTargetOf(game, result'.action)
              in_time == target.t < game.cube.time_depth
              in_space == /\ target.x >= 0 /\ target.x < game.cube.width
                          /\ target.y >= 0 /\ target.y < game.cube.height
              free == ~BlockerAt(game.cube, target)
              fresh == target \notin SeqToSet(game.world_line.path)
          IN /\ result'.ok <=> (in_time /\ in_space /\ free /\ fresh)
             /\ ~result'.ok =>
                   result'.err = MoveBlocked(MoveError(
                       CASE ~in_time -> "TimeOverflow"
                         [] in_time /\ ~in_space -> "OutOfBounds"
                         [] in_time /\ in_space /\ ~free -> "Blocked"
                         [] OTHER -> "SelfIntersection",
                       target))
             /\ result'.ok => player_position(game') = target]_vars

\* A Move into a cell of the next slice the world line already holds was
\* refused with MoveBlocked(SelfIntersection).
C6_MoveRefusedOnVisitedCell ==
    /\ result.action.kind = "Move"
    /\ ~result.ok
    /\ result.err.kind = "MoveBlocked"
    /\ Unwrap(result.err.move).kind = "SelfIntersection"

\* The rift entities in the player's cell of the current slice.
RiftsHere(state) ==
    LET cur == player_position(state)
    IN {e \in all_entities(state.cube.slices[cur.t + 1]) :
            is_rift(e) /\ e.position.x = cur.x /\ e.position.y = cur.y}

\* C7: in phase Playing, UseRift fails with NoRiftHere when no rift entity is
\* in the player's cell of the current slice; with a rift there it succeeds
\* exactly when the rift's target is inside the cube and not in the world
\* line, and then the player's new position is that target; otherwise it
\* fails with InvalidRiftTarget.
C7_UseRiftPreconditions ==
    [][(game.phase = "Playing" /\ result'.action = UseRift) =>
          IF RiftsHere(game) = {}
          THEN ~result'.ok /\ result'.err = SimpleError("NoRiftHere")
          ELSE \A e \in RiftsHere(game) :
                  LET target == Unwrap(e.rift).target
                  IN IF /\ target.x >= 0 /\ target.x < game.cube.width
                        /\ target.y >= 0 /\ target.y < game.cube.height
                        /\ target.t >= 0 /\ target.t < game.cube.time_depth
                        /\ target \notin SeqToSet(game.world_line.path)
                     THEN /\ result'.ok
                          /\ player_position(game') = target
                          /\ game'.world_line.path = Append(game.world_line.path, target)
                     ELSE /\ ~result'.ok
                          /\ result'.err = InvalidRiftTarget(target)]_vars

\* UseRift took the player to a target earlier in time than the rift.
C7_RiftedIntoThePast ==
    /\ result.ok
    /\ result.action = UseRift
    /\ player_position(game).t < player_position(result.input).t

\* The cell i steps ahead of the player in direction dir, at time t.
Ahead(state, dir, i, t) ==
    LET cur == player_position(state)
    IN Position(cur.x + i * delta(dir)[1], cur.y + i * delta(dir)[2], t)

\* The pushable entities in the cell of pos in the slice pos.t.
PushablesAt(cube, pos) ==
    IF in_bounds(cube, pos)
    THEN {e \in all_entities(cube.slices[pos.t + 1]) :
            is_pushable(e) /\ e.position.x = pos.x /\ e.position.y = pos.y}
    ELSE {}

\* k: the number of consecutive cells directly ahead that hold a pushable
\* entity in the current slice.
RunAhead(state, dir) ==
    LET t == player_position(state).t
    IN CHOOSE k \in 0..(state.cube.width + state.cube.height) :
          /\ \A i \in 1..k : PushablesAt(state.cube, Ahead(state, dir, i, t)) # {}
          /\ PushablesAt(state.cube, Ahead(state, dir, k + 1, t)) = {}

ChainIds(state, dir) ==
    LET t == player_position(state).t
    IN UNION {{e.id : e \in PushablesAt(state.cube, Ahead(state, dir, i, t))} :
                i \in 1..RunAhead(state, dir)}

\* pos is inside the cube and no movement-blocking entity outside the chain
\* stands in its cell of the slice pos.t.
DestinationFree(state, dir, pos) ==
    /\ in_bounds(state.cube, pos)
    /\ ~\E e \in all_entities(state.cube.slices[pos.t + 1]) :
          /\ blocks_movement(e) /\ e.position.x = pos.x /\ e.position.y = pos.y
          /\ e.id \notin ChainIds(state, dir)

\* The player's and every chain entity's destination at t+1 is free.
PushDestinationsFree(state, dir) ==
    \A i \in 1..(RunAhead(state, dir) + 1) :
        DestinationFree(state, dir, Ahead(state, dir, i, player_position(state).t + 1))

\* C8 (amended): with k consecutive pushable entities directly ahead, Push
\* fails with PushChainTooLong when k > max_push_chain; it succeeds when
\* 1 <= k <= max_push_chain, the player's and every chain entity's
\* destination at t+1 is in bounds and free of non-chain blockers, and the
\* player's destination is not already in the world line.
C8_PushChainBound ==
    [][(game.phase = "Playing" /\ result'.action.kind = "Push") =>
          LET dir == result'.action.dir
              k == RunAhead(game, dir)
          IN /\ k > game.config.max_push_chain =>
                   ~result'.ok /\ result'.err = SimpleError("PushChainTooLong")
             /\ (/\ 1 <= k /\ k <= game.config.max_push_chain
                 /\ PushDestinationsFree(game, dir)
                 /\ Ahead(game, dir, 1, player_position(game).t + 1)
                        \notin SeqToSet(game.world_line.path)) =>
                   result'.ok]_vars

\* C8 as stated: the Push succeeds whenever 1 <= k <= max_push_chain and the
\* destinations are in bounds and free of non-chain blockers.
C8_PushSucceedsWhenDestinationsFree ==
    [][(game.phase = "Playing" /\ result'.action.kind = "Push") =>
          LET dir == result'.action.dir
              k == RunAhead(game, dir)
          IN /\ k > game.config.max_push_chain =>
                   ~result'.ok /\ result'.err = SimpleError("PushChainTooLong")
             /\ (/\ 1 <= k /\ k <= game.config.max_push_chain
                 /\ PushDestinationsFree(game, dir)) =>
                   result'.ok]_vars

\* A Push at a row of more pushable entities than max_push_chain was
\* refused with PushChainTooLong.
C8_ChainTooLongRefused ==
    /\ result.action.kind = "Push"
    /\ ~result.ok
    /\ result.err = SimpleError("PushChainTooLong")
    /\ RunAhead(game, result.action.dir) > game.config.max_push_chain

\* The entity id occupies the cell of pos in the slice pos.t of cube.
Occupies(cube, id, pos) ==
    /\ in_bounds(cube, pos)
    /\ id \in DOMAIN cube.slices[pos.t + 1].entities
    /\ cube.slices[pos.t + 1].entities[id].position = pos
    /\ id \in SeqToSet(entity_ids_at(cube.slices[pos.t + 1], spatial(pos)))

\* C9: after a successful Push(dir) from (x,y,t) with chain e_1..e_k, the
\* player is at ((x,y)+delta, t+1), each e_i is at ((x,y)+(i+1)*delta, t+1),
\* and a time-persistent e_i without patrol is in that cell in every later
\* slice up to time_depth-1.
C9_PushMovesChain ==
    [][(result'.ok /\ result'.action.kind = "Push") =>
          LET dir == result'.action.dir
              t == player_position(game).t
          IN /\ player_position(game') = Ahead(game, dir, 1, t + 1)
             /\ \A i \in 1..RunAhead(game, dir) :
                   \A e \in PushablesAt(game.cube, Ahead(game, dir, i, t)) :
                      /\ Occupies(game'.cube, e.id, Ahead(game, dir, i + 1, t + 1))
                      /\ (is_time_persistent(e) /\ e.patrol = None) =>
                            \A u \in (t + 2)..(game.cube.time_depth - 1) :
                               Occupies(game'.cube, e.id, Ahead(game, dir, i + 1, u))]_vars

\* A Push moved a chain of two entities at a time with a later slice left.
C9_PushedTwo ==
    /\ result.ok
    /\ result.action.kind = "Push"
    /\ RunAhead(result.input, result.action.dir) = 2
    /\ player_position(result.input).t + 2 < game.cube.time_depth

\* The pullable entities in the cell behind the player (opposite dir).
PullablesBehind(state, dir) ==
    LET pos == Ahead(state, dir, -1, player_position(state).t)
    IN IF in_bounds(state.cube, pos)
       THEN {e \in all_entities(state.cube.slices[pos.t + 1]) :
               is_pullable(e) /\ e.position.x = pos.x /\ e.position.y = pos.y}
       ELSE {}

\* C10: after a successful Pull(dir) from (x,y,t) with a Pullable entity in
\* the cell opposite dir, the player is at ((x,y)+delta, t+1), the pulled
\* entity at (x,y,t+1) and, when time-persistent without patrol, at (x,y) in
\* every later slice up to time_depth-1.
C10_PullMovesEntity ==
    [][(result'.ok /\ result'.action.kind = "Pull") =>
          LET dir == result'.action.dir
              t == player_position(game).t
          IN /\ player_position(game') = Ahead(game, dir, 1, t + 1)
             /\ PullablesBehind(game, dir) # {}
             /\ \A e \in PullablesBehind(game, dir) :
                   /\ Occupies(game'.cube, e.id, Ahead(game, dir, 0, t + 1))
                   /\ (is_time_persistent(e) /\ e.patrol = None) =>
                         \A u \in (t + 2)..(game.cube.time_depth - 1) :
                            Occupies(game'.cube, e.id, Ahead(game, dir, 0, u))]_vars

\* A Pull drew an entity into the player's old cell with a later slice left.
C10_Pulled ==
    /\ result.ok
    /\ result.action.kind = "Pull"
    /\ player_position(result.input).t + 2 < game.cube.time_depth
    /\ Unwrap(result.outcome).kind = "Pulled"

\* C11: when a successful Move, Wait, UseRift, Push or Pull leaves the player
\* on a cell holding an Exit entity in the slice of the new time and the
\* detection check finds nothing, the phase is Won and the outcome is
\* Won{at} with at the player's new position, not the action's own outcome.
C11_WonOnExit ==
    [][(/\ result'.ok
        /\ result'.action.kind \in PlayerActionKinds
        /\ \E e \in all_entities(game'.cube.slices[player_position(game').t + 1]) :
              /\ is_exit(e)
              /\ e.position.x = player_position(game').x
              /\ e.position.y = player_position(game').y
        /\ ~DetectionReported(game')) =>
          /\ game'.phase = "Won"
          /\ result'.outcome =
                Some(ActionOutcome("Won", None, Some(player_position(game')), <<>>, None))]_vars

\* A Move onto the exit, unseen, won the game at the player's new position.
C11_WonByMove ==
    /\ result.ok
    /\ result.action.kind = "Move"
    /\ game.phase = "Won"
    /\ Unwrap(result.outcome).kind = "Won"
    /\ Unwrap(result.outcome).to = Some(player_position(game))
    /\ player_position(game) # player_position(result.input)

\* The detections the check can report on a state, over the orders in which a
\* slice may yield its enemies.
DetectionsOf(state) ==
    {check_detection(state.cube, state.world_line, state.config.detection, order) :
        order \in Orderings(enemy_ids(state.cube))} \ {None}

\* C12: under DiscreteDelay with delay d, a detection made by an enemy at time
\* te is of the position the player recorded at time te - d, so none is made
\* for te - d < 0; and a player who starts at t = 0 in clear sight of a
\* stationary enemy, within its vision radius, is not detected by any successful
\* action that ends at a time below d and is detected by the one that reaches
\* t = d, where the position seen is the starting one.
C12_DelayedSight ==
    [][(/\ result'.ok
        /\ result'.action.kind \in PlayerActionKinds
        /\ game'.config.detection.model = "DiscreteDelay") =>
          LET d == game'.config.detection.delay_turns
              now == player_position(game').t
          IN /\ \A r \in DetectionsOf(game') :
                   /\ Unwrap(r).enemy_position.t - d >= 0
                   /\ Unwrap(r).player_position.t = Unwrap(r).enemy_position.t - d
                   /\ \E i \in 1..Len(game'.world_line.path) :
                         game'.world_line.path[i] = Unwrap(r).player_position
             /\ level.name = "detect" =>
                   /\ now < d => /\ game'.phase # "Detected"
                                 /\ ~at_exit(game') => game'.phase = "Playing"
                   /\ now = d =>
                         /\ game'.phase = "Detected"
                         /\ Unwrap(result'.outcome).kind = "Detected"
                         /\ Unwrap(result'.outcome).to = Some(game.initial_world_line.path[1])]_vars

\* With a delay of two turns the first action went unseen and the second one,
\* reaching t = 2, was detected.
C12_DetectedAtDelay ==
    /\ level.name = "detect"
    /\ game.config.detection.model = "DiscreteDelay"
    /\ game.config.detection.delay_turns = 2
    /\ result.ok /\ result.action.kind \in PlayerActionKinds
    /\ player_position(game).t = 2
    /\ result.input.phase = "Playing"
    /\ player_position(result.input).t = 1
    /\ game.phase = "Detected"

\* The cells of the rasterized line strictly between its endpoints.
Between(from, to) ==
    LET points == bresenham_line(from.x, from.y, to.x, to.y)
    IN {SpatialPos(points[i][1], points[i][2]) : i \in 2..(Len(points) - 1)}

\* Some entity stored in slice te blocks vision on cell c.
VisionBlockedAt(cube, c, te) ==
    \E e \in all_entities(cube.slices[te + 1]) :
        blocks_vision(e) /\ e.position.x = c.x /\ e.position.y = c.y

\* The line from a cell an enemy stands on to a cell the player can be on is
\* blocked at te exactly when an intermediate cell holds a vision blocker in
\* slice te.
BlockedByIntermediate ==
    \A from \in EnemyCells, to \in PlayerCells, te \in 0..(TimeDepth - 1) :
        is_line_blocked(world, from, to, te)
            <=> \E c \in Between(from, to) : VisionBlockedAt(world, c, te)

\* A wall spawned at the observation time of the detection in force: on an
\* intermediate cell of its line it removes that detection (what is detected
\* afterwards, if anything, is another position or at another time); on the
\* enemy's or the player's cell it changes nothing.
WallOnTheLine ==
    (IsSome(sight.detection) /\ IsSome(sight'.placed)) =>
        LET r == Unwrap(sight.detection)
            at == Unwrap(sight'.placed)
        IN at.t = r.enemy_position.t =>
             /\ spatial(at) \in Between(spatial(r.enemy_position), spatial(r.player_position))
                  => /\ is_line_blocked(world', spatial(r.enemy_position),
                                        spatial(r.player_position), at.t)
                     /\ sight'.detection # sight.detection
                     /\ IsSome(sight'.detection) =>
                           \/ Unwrap(sight'.detection).enemy_position # r.enemy_position
                           \/ Unwrap(sight'.detection).player_position # r.player_position
             /\ spatial(at) \in {spatial(r.enemy_position), spatial(r.player_position)}
                  => sight'.detection = sight.detection

Perceives(cube, config, e, te, p) ==
    LET distance == Abs(e.position.x - p.x) + Abs(e.position.y - p.y)
    IN /\ p.t < te
       /\ distance <= Unwrap(e.vision).light_speed * (te - p.t)
       /\ distance <= config.vision_radius
       /\ ~\E c \in Between(spatial(e.position), spatial(p)) : VisionBlockedAt(cube, c, te)

\* C14: under LightCone, check_detection reports a detection exactly when for
\* some te from 0 to the largest time recorded in the world line an enemy in
\* slice te and a recorded position p with p.t < te are within
\* light_speed * (te - p.t) and within vision_radius of each other with an
\* unblocked line of sight at te; the detected position is such a p, never one
\* with p.t >= te.
C14_LightCone ==
    sight.config.model = "LightCone" =>
        LET last == CHOOSE m \in {line.path[i].t : i \in 1..Len(line.path)} :
                        \A i \in 1..Len(line.path) : line.path[i].t <= m
        IN /\ IsSome(sight.detection) <=>
                \E te \in 0..last, i \in 1..Len(line.path) :
                    \E e \in all_entities(world.slices[te + 1]) :
                        IsSome(e.vision) /\ Perceives(world, sight.config, e, te, line.path[i])
           /\ IsSome(sight.detection) =>
                LET r == Unwrap(sight.detection)
                IN /\ r.player_position.t < r.enemy_position.t
                   /\ r.enemy_position.t <= last
                   /\ \E i \in 1..Len(line.path) : line.path[i] = r.player_position
                   /\ \E e \in all_entities(world.slices[r.enemy_position.t + 1]) :
                         /\ e.id = r.enemy_id /\ e.position = r.enemy_position
                         /\ Perceives(world, sight.config, e, r.enemy_position.t,
                                      r.player_position)

\* A detection under LightCone of an earlier position, while the line also
\* holds a position in range that is not earlier than the observation.
C14_SeenInThePast ==
    /\ sight.config.model = "LightCone"
    /\ IsSome(sight.detection)
    /\ \E i \in 1..Len(line.path) :
          /\ line.path[i].t >= Unwrap(sight.detection).enemy_position.t
          /\ Abs(Unwrap(sight.detection).enemy_position.x - line.path[i].x)
                + Abs(Unwrap(sight.detection).enemy_position.y - line.path[i].y) <= 1

\* Slice t of the cube holds an entity with this id.
Holds(cube, id, t) == t + 1 \in DOMAIN cube.slices /\ id \in DOMAIN cube.slices[t + 1].entities

\* The instances of id stored in the cube, in slice order.
InstancesOf(cube, id) ==
    LET held == SelectSeq([i \in 1..Len(cube.slices) |-> i - 1], LAMBDA t : Holds(cube, id, t))
    IN [k \in 1..Len(held) |-> cube.slices[held[k] + 1].entities[id]]

\* The last call spawned and propagated a time-persistent entity without a patrol.
PropagatedSpawn(call) ==
    /\ call.op = "spawn_and_propagate" /\ call.ok
    /\ is_time_persistent(Unwrap(call.entity))
    /\ Unwrap(call.entity).patrol = None

\* After the call the entity is in every slice from t0 on, at its cell.
InEveryLaterSlice(cube, e) ==
    \A t \in e.position.t..(cube.time_depth - 1) :
        /\ Holds(cube, e.id, t)
        /\ cube.slices[t + 1].entities[e.id].position = Position(e.position.x, e.position.y, t)

\* despawn_all(id) on this cube leaves the id in no slice, the other entities
\* where they were, and returns the removed instances.
DespawnAllRemoves(cube, id) ==
    /\ \A t \in 0..(cube.time_depth - 1) :
          /\ ~Holds(despawn_all(cube, id).cube, id, t)
          /\ all_entities(despawn_all(cube, id).cube.slices[t + 1])
                = {x \in all_entities(cube.slices[t + 1]) : x.id # id}
    /\ despawn_all(cube, id).removed = InstancesOf(cube, id)

\* C15: after spawn_and_propagate of a time-persistent entity without a patrol
\* at time t0 the id is in every slice t0 <= t < time_depth at the same cell,
\* and the slices before t0 are as they were; despawn_all(id), called next or
\* at any time, removes the id from every slice and returns the removed
\* instances in slice order, which are those of the slices from t0 on when no
\* earlier slice held the id.
C15_SpawnedThroughTime ==
    [][/\ PropagatedSpawn(world_result') =>
            LET e == Unwrap(world_result'.entity)
            IN /\ InEveryLaterSlice(world', e)
               /\ \A t \in 0..(e.position.t - 1) : world'.slices[t + 1] = world.slices[t + 1]
               /\ DespawnAllRemoves(world', e.id)
               /\ (\A t \in 0..(e.position.t - 1) : ~Holds(world, e.id, t)) =>
                     despawn_all(world', e.id).removed
                        = [k \in 1..(world'.time_depth - e.position.t) |->
                             at_time(e, e.position.t + k - 1)]
       /\ world_result'.op = "despawn_all" =>
            /\ \A t \in 0..(world'.time_depth - 1) : ~Holds(world', world_result'.id, t)
            /\ world_result'.removed = InstancesOf(world, world_result'.id)
            /\ world' = despawn_all(world, world_result'.id).cube
            /\ DespawnAllRemoves(world, world_result'.id)]_vars

\* The statement with its parenthesis: the id is in no slice before t0, and
\* despawn_all returns exactly the instances of the slices from t0 on.
C15_InNoEarlierSlice ==
    [][PropagatedSpawn(world_result') =>
            LET e == Unwrap(world_result'.entity)
            IN /\ InEveryLaterSlice(world', e)
               /\ \A t \in 0..(e.position.t - 1) : ~Holds(world', e.id, t)
               /\ despawn_all(world', e.id).removed
                     = [k \in 1..(world'.time_depth - e.position.t) |->
                          at_time(e, e.position.t + k - 1)]]_vars

\* A box was spawned and propagated from t0 = 1 into a cube whose slice 0
\* already held its id.
C15_SpawnedAfterAnEarlierInstance ==
    /\ PropagatedSpawn(world_result)
    /\ world_result.t = 1
    /\ Holds(world, "a", 0)
    /\ \A t \in 1..(TimeDepth - 1) : Holds(world, "a", t)

\* C16: a failing spawn_and_propagate leaves every slice as it was; it fails
\* exactly when the origin is out of bounds (OutOfBounds) or the id is already
\* in the origin slice or, for a time-persistent entity, in a later slice
\* (EntityAlreadyExists).
C16_NoPartialPropagation ==
    [][world_result'.op = "spawn_and_propagate" =>
            LET e == Unwrap(world_result'.entity)
                outside == ~(/\ 0 <= e.position.x /\ e.position.x < world.width
                             /\ 0 <= e.position.y /\ e.position.y < world.height
                             /\ 0 <= e.position.t /\ e.position.t < world.time_depth)
                taken == \/ Holds(world, e.id, e.position.t)
                         \/ /\ is_time_persistent(e)
                            /\ \E t \in (e.position.t + 1)..(world.time_depth - 1) :
                                  Holds(world, e.id, t)
            IN /\ ~world_result'.ok <=> (outside \/ taken)
               /\ ~world_result'.ok => world' = world
               /\ outside => world_result'.err = "OutOfBounds"
               /\ (~outside /\ taken) => world_result'.err = "EntityAlreadyExists"]_vars

\* The call failed on an instance in a later slice only, in a cube that holds
\* the id nowhere else.
C16_RefusedForALaterSlice ==
    /\ world_result.op = "spawn_and_propagate"
    /\ ~world_result.ok
    /\ world_result.err = "EntityAlreadyExists"
    /\ world_result.t = 0
    /\ ~Holds(world, "a", 0)
    /\ Holds(world, "a", 1)

\* The position lies in [0, width) x [0, height) x [0, time_depth).
Inside(cube, pos) ==
    /\ 0 <= pos.x /\ pos.x < cube.width
    /\ 0 <= pos.y /\ pos.y < cube.height
    /\ 0 <= pos.t /\ pos.t < cube.time_depth

\* Every entity stored in a slice of the cube is inside the cube.
StoredInside(cube) ==
    \A i \in 1..Len(cube.slices) : \A e \in all_entities(cube.slices[i]) : Inside(cube, e.position)

\* The cube of the calls and the cube of the game hold no entity outside.
AllStoredInside ==
    /\ DOMAIN world # {} => StoredInside(world)
    /\ DOMAIN game # {} => StoredInside(game.cube)

\* A spawn given a position outside the cube returns OutOfBounds and leaves
\* the cube as it was; a propagation call leaves a target slice's entry for an
\* entity as it was when the entity's propagated position is outside the cube.
OutsideRefused ==
    /\ (/\ world_result'.op \in {"spawn", "spawn_and_propagate", "spawn_or_replace"}
        /\ ~Inside(world, Unwrap(world_result'.entity).position)) =>
            /\ ~world_result'.ok
            /\ world_result'.err = "OutOfBounds"
            /\ world' = world
    /\ (/\ world_result'.op \in {"propagate_slice", "propagate_all",
                                   "propagate_from_with_options"}
        /\ world_result'.t < world.time_depth) =>
            /\ world_result'.ok
            /\ \A e \in all_entities(world.slices[world_result'.t + 1]) :
                 \A t \in (world_result'.t + 1)..(world.time_depth - 1) :
                    (IsSome(e.patrol) /\ ~Inside(world, Position(position_at(Unwrap(e.patrol), t).x,
                                                                 position_at(Unwrap(e.patrol), t).y, t)))
                        => /\ Holds(world', e.id, t) <=> Holds(world, e.id, t)
                           /\ Holds(world, e.id, t) =>
                                 world'.slices[t + 1].entities[e.id]
                                    = world.slices[t + 1].entities[e.id]

\* C17: whatever sequence of spawn, spawn_and_propagate, spawn_or_replace,
\* despawn_at, despawn_all, propagate_slice and propagate_all calls and of
\* apply_action transitions has run, every stored entity has 0 <= x < width,
\* 0 <= y < height and 0 <= t < time_depth; a spawn at a position outside the
\* cube returns OutOfBounds and stores nothing, and a propagated position
\* outside the cube is not written.
C17_StoredInBounds == []AllStoredInside /\ [][OutsideRefused]_vars

\* propagate_all has run on a cube whose slice 0 holds the box and the enemy:
\* the box is in every slice, the enemy only where its patrol is inside.
C17_PatrolLeftTheCube ==
    /\ world_result.op = "propagate_all" /\ world_result.ok
    /\ Holds(world, "a", 0) /\ Holds(world, "b", 0)
    /\ Holds(world, "a", 1) /\ ~Holds(world, "b", 1)
    /\ Holds(world, "a", 2) /\ Holds(world, "b", 2)

\* C19: running propagate_from_with_options a second time from the same
\* source slice with the same options (the source slice, unchanged by the
\* first run, yielding its entities in the same order) leaves every slice as
\* the first run left it.
C19_PropagationIdempotent ==
    [][(/\ world_result'.op \in {"propagate_slice", "propagate_all",
                                  "propagate_from_with_options"}
        /\ world_result'.ok) =>
            /\ world'.slices[world_result'.t + 1] = world.slices[world_result'.t + 1]
            /\ propagate_from_with_options(world', world_result'.t,
                    Unwrap(world_result'.options), world_result'.order).cube = world']_vars

\* A propagation from slice 0 has written the later slices, skipping one of
\* two entities bound for the same cell, and running it again from its result
\* reports the collision again and writes nothing new.
C19_RanWithACollision ==
    /\ world_result.op = "propagate_from_with_options" /\ world_result.ok
    /\ world_result.t = 0
    /\ Holds(world, "a", 0) /\ Holds(world, "b", 0)
    /\ world_result.options = Some(PropagationOptions(None, None, TRUE))
    /\ Len(world_result.order) = 2
    /\ LET again == propagate_from_with_options(world, 0, Unwrap(world_result.options),
                                                world_result.order)
       IN /\ again.cube = world
          /\ again.slices_updated > 0
          /\ \E i \in 1..Len(again.warnings) : again.warnings[i].kind = "EntityCollision"
          /\ Holds(world, world_result.order[1], 2)
          /\ ~Holds(world, world_result.order[2], 2)

\* C18: after any sequence of add_entity, remove_entity and move_entity calls
\* the spatial index lists an id under a cell exactly when the entity map
\* holds that id at that cell, and no cell list names an id twice.
C18_IndexIsInverse ==
    /\ \A c \in DOMAIN tslice.spatial_index \cup SliceCells, id \in SliceIds :
          (c \in DOMAIN tslice.spatial_index
              /\ \E i \in 1..Len(tslice.spatial_index[c]) : tslice.spatial_index[c][i] = id)
          <=> (id \in DOMAIN tslice.entities
                  /\ tslice.entities[id].position.x = c.x
                  /\ tslice.entities[id].position.y = c.y)
    /\ \A c \in DOMAIN tslice.spatial_index :
          /\ \A i, j \in 1..Len(tslice.spatial_index[c]) :
                tslice.spatial_index[c][i] = tslice.spatial_index[c][j] => i = j
          /\ \A i \in 1..Len(tslice.spatial_index[c]) : tslice.spatial_index[c][i] \in SliceIds
    /\ DOMAIN tslice.entities \subseteq SliceIds
    /\ tslice_result.op = "move_entity" => (tslice_result.found <=> IsSome(tslice_result.from))

\* add_entity has just replaced an instance that sat at another cell, next
\* to which the other entity stays.
C18_OverwrittenElsewhere ==
    /\ tslice_result.op = "add_entity"
    /\ tslice_result.found
    /\ tslice_result.from # tslice_result.to
    /\ \E other \in DOMAIN tslice.entities :
          /\ other # tslice_result.id
          /\ Some(spatial(tslice.entities[other].position)) = tslice_result.from

\* The Push or Pull just returned had passed its validation.
ValidatedPushOrPull ==
    /\ is_active(game)
    /\ \/ result'.action.kind = "Push" /\ validate_push(game, result'.action.dir).ok
       \/ result'.action.kind = "Pull" /\ validate_pull(game, result'.action.dir).ok

\* C20: a Push or Pull that passes validation returns success whatever the
\* forward propagation of the moved entity meets: an entity in the cell it
\* lands on in a later slice, or a propagated position outside the cube, is
\* reported as a warning of the returned propagation result, the colliding
\* entity is written all the same, and no propagation error becomes an action
\* error.
C20_PropagationNeverFails ==
    [][ValidatedPushOrPull =>
          /\ result'.ok
          /\ IsSome(result'.propagation)
          /\ \A i \in 1..Len(Unwrap(result'.propagation).warnings) :
                LET w == Unwrap(result'.propagation).warnings[i]
                IN /\ w.kind \in {"EntityCollision", "OutOfBounds"}
                   /\ w.kind = "EntityCollision" =>
                         /\ Holds(game'.cube, w.entity_b, w.at.t)
                         /\ game'.cube.slices[w.at.t + 1].entities[w.entity_b].position = w.at
                   /\ w.kind = "OutOfBounds" =>
                         /\ ~Inside(game'.cube, w.at)
                         /\ ~Holds(game'.cube, w.entity_b, w.at.t)]_vars

\* A Push succeeded whose box, propagated to t = 2, was written into the cell
\* of a wall, with a collision warning.
C20_PushedOntoAWall ==
    /\ result.ok /\ result.action.kind = "Push"
    /\ \E i \in 1..Len(Unwrap(result.propagation).warnings) :
          LET w == Unwrap(result.propagation).warnings[i]
          IN /\ w.kind = "EntityCollision"
             /\ w.entity_a = "wall" /\ w.entity_b = "box1"
             /\ game.cube.slices[w.at.t + 1].entities["box1"].position = w.at
             /\ game.cube.slices[w.at.t + 1].entities["wall"].position = w.at

(***************************************************************************)
(* C21: construction needs exactly one player instance.                    *)
(***************************************************************************)
\* The Player instances of a cube, as <<slice time, id>>.
PlayerInstancesOf(cube) ==
    UNION {{<<t, id>> : id \in {i \in DOMAIN cube.slices[t + 1].entities :
                                    "Player" \in cube.slices[t + 1].entities[i].components}} :
           t \in 0..(cube.time_depth - 1)}

\* C21: GameState::new fails with NoPlayer when no slice of the cube holds a
\* Player entity and with MultiplePlayers when more than one Player instance
\* exists across all slices; with exactly one it succeeds and yields phase
\* Playing, turn 0, an empty history and a world line holding only that
\* player's position.
C21_NewNeedsOnePlayer ==
    world_result.op = "GameState::new" =>
        LET n == Cardinality(PlayerInstancesOf(world))
        IN /\ n = 0 => ~world_result.ok /\ world_result.err = "NoPlayer"
           /\ n > 1 => ~world_result.ok /\ world_result.err = "MultiplePlayers"
           /\ n = 1 =>
                LET inst == CHOOSE i \in PlayerInstancesOf(world) : TRUE
                    st == Unwrap(world_result.state)
                IN /\ world_result.ok
                   /\ st.phase = "Playing" /\ st.turn = 0 /\ st.history = <<>>
                   /\ st.world_line.path
                        = <<world.slices[inst[1] + 1].entities[inst[2]].position>>
                   /\ st.player_id = inst[2]
                   /\ st.cube = world
                   /\ st.config = Unwrap(world_result.config)

\* Witness: the constructor refused a cube that holds the same player id in
\* two slices (and nothing else that is a player).
C21_SamePlayerInTwoSlices ==
    /\ world_result.op = "GameState::new"
    /\ world_result.err = "MultiplePlayers"
    /\ PlayerInstancesOf(world) = {<<0, "p">>, <<1, "p">>}

(***************************************************************************)
(* C22, C23: valid_actions, validate_action and preview_action against     *)
(* apply_action.                                                           *)
(***************************************************************************)
AllActions ==
    {Move(d) : d \in Direction} \cup {Push(d) : d \in Direction}
        \cup {Pull(d) : d \in Direction} \cup {Wait, UseRift, Restart}

\* apply_action(state, a) would succeed, whatever order the hash maps have.
WouldSucceed(state, a) == \A nd \in NdChoices(state, a) : apply_action(state, a, nd).ok

\* C22: valid_actions() enumerates all currently legal actions: in every
\* reachable state, in any phase, an action among Move/Push/Pull in the four
\* directions, Wait, UseRift and Restart is in valid_actions() if and only if
\* apply_action would succeed on it.
C22_ValidActionsAreTheLegalOnes ==
    \A a \in AllActions :
        (a \in SeqToSet(valid_actions(game))) <=> WouldSucceed(game, a)

\* The same while the game is being played: there the list is exact.
C22_ExactWhilePlaying ==
    is_active(game) =>
        \A a \in AllActions :
            (a \in SeqToSet(valid_actions(game))) <=> WouldSucceed(game, a)

\* Once the game is over the list is empty although Restart would succeed.
C22_EmptyWhenOver ==
    ~is_active(game) => valid_actions(game) = <<>> /\ WouldSucceed(game, Restart)

\* C23: the three entry points agree on legality: in every reachable state,
\* in any phase, and for every action, validate_action is Ok if and only if
\* preview_action is Ok if and only if apply_action is Ok, and when they fail
\* they fail with the same error.
C23_EntryPointsAgree ==
    \A a \in AllActions : \A nd \in NdChoices(game, a) :
        LET v == validate_action(game, a)
            p == preview_action(game, a)
            r == apply_action(game, a, nd)
        IN /\ v.ok = p.ok /\ p.ok = r.ok
           /\ ~r.ok => v.err = r.err /\ p.err = r.err

\* The same while the game is being played.
C23_AgreeWhilePlaying ==
    is_active(game) =>
        \A a \in AllActions : \A nd \in NdChoices(game, a) :
            LET v == validate_action(game, a)
                p == preview_action(game, a)
                r == apply_action(game, a, nd)
            IN /\ v.ok = p.ok /\ p.ok = r.ok
               /\ ~r.ok => v.err = r.err /\ p.err = r.err

\* validate_action and preview_action always agree with each other.
C23_ValidateAgreesWithPreview ==
    \A a \in AllActions :
        /\ validate_action(game, a).ok = preview_action(game, a).ok
        /\ validate_action(game, a).err = preview_action(game, a).err

(***************************************************************************)
(* C24: turn, history and world line advance together.                     *)
(***************************************************************************)
TurnIsHistoryIsLine(state) ==
    /\ state.turn = Len(state.history)
    /\ current_turn(state.world_line) = Some(state.turn)
    /\ state.turn = Len(state.world_line.path) - 1

\* A successful Move, Wait, UseRift, Push or Pull appends exactly that action
\* to the history and raises turn, history length and world-line length by one.
TurnAdvances ==
    (result'.ok /\ result'.action.kind \in PlayerActionKinds) =>
        /\ game'.history = Append(game.history, result'.action)
        /\ game'.turn = game.turn + 1
        /\ Len(game'.world_line.path) = Len(game.world_line.path) + 1
        /\ result'.input = game

\* C24: in every reachable GameState the turn counter equals the world line's
\* current turn index and the length of the action history (turn = history
\* length = world line length - 1), and each successful Move, Wait, UseRift,
\* Push or Pull appends exactly that action to the history and raises all
\* three by one.
C24_TurnHistoryLine == [](TurnIsHistoryIsLine(game)) /\ [][TurnAdvances]_vars

\* Witness: a rift to an earlier time was the second action; the turn is 2
\* while the player's time is below it.
C24_SecondTurnInThePast ==
    /\ result.ok /\ result.action = UseRift
    /\ game.turn = 2 /\ game.history[2] = UseRift
    /\ player_position(game).t < 2
    /\ Len(game.world_line.path) = 3

(***************************************************************************)
(* C25, C26: the step rule of extend, and extend_via_rift.                 *)
(***************************************************************************)
\* to is one time step after from, in the same cell or one cardinal step away.
CausalStep(from, to) ==
    /\ to.t = from.t + 1
    /\ \/ to.x = from.x /\ to.y = from.y
       \/ to.x = from.x /\ to.y \in {from.y - 1, from.y + 1}
       \/ to.y = from.y /\ to.x \in {from.x - 1, from.x + 1}

ExtendObeysStepRule ==
    (line_result'.op = "extend" /\ line.path # <<>>) =>
        LET from == line.path[Len(line.path)]
            to == Unwrap(line_result'.pos)
        IN /\ line_result'.ok => CausalStep(from, to)
           /\ ~CausalStep(from, to) =>
                /\ ~line_result'.ok /\ line_result'.err = "InvalidStep"
                /\ line' = line
           /\ line_result'.ok => line'.path = Append(line.path, to)

\* C25: extend(to) on a non-empty line whose current position is from
\* succeeds only if to.t = from.t + 1 and |to.x - from.x| + |to.y - from.y| <= 1;
\* every other delta, diagonal steps and other time differences included,
\* fails with InvalidStep and leaves the line unchanged.
C25_ExtendStepRule == [][ExtendObeysStepRule]_vars

\* Witness: extend refused a diagonal step to the next time and left the line
\* as it was.
C25_DiagonalRefused ==
    /\ line_result.op = "extend" /\ ~line_result.ok /\ line_result.err = "InvalidStep"
    /\ line.path # <<>>
    /\ LET from == line.path[Len(line.path)]
           to == Unwrap(line_result.pos)
       IN to.t = from.t + 1 /\ to.x # from.x /\ to.y # from.y

RiftObeysOnlyIntersection ==
    /\ line_result'.op = "extend_via_rift" =>
          LET pos == Unwrap(line_result'.pos)
          IN /\ line.path = <<>> => ~line_result'.ok /\ line_result'.err = "Empty"
             /\ line.path # <<>> =>
                    (line_result'.ok <=> \A i \in 1..Len(line.path) : line.path[i] # pos)
             /\ line_result'.ok => line'.path = Append(line.path, pos)
             /\ ~line_result'.ok => line' = line
    \* An extend that follows a successful rift is measured from the rift's
    \* destination.
    /\ (line_result.op = "extend_via_rift" /\ line_result.ok /\ line_result'.op = "extend") =>
          /\ current(line) = line_result.pos
          /\ line_result'.ok =>
                is_valid_step_from(Unwrap(line_result'.pos), Unwrap(line_result.pos))
          /\ ~is_valid_step_from(Unwrap(line_result'.pos), Unwrap(line_result.pos)) =>
                line_result'.err = "InvalidStep"

\* C26: extend_via_rift(pos) on a non-empty line succeeds if and only if pos
\* is not already in the line, for any spatial distance and any t (earlier
\* than, equal to or later than the current t), so several recorded positions
\* may share the same t; on an empty line it fails with Empty.  A later
\* ordinary extend is checked against the rift destination as the new current
\* position.
C26_RiftOnlyIntersection == [][RiftObeysOnlyIntersection]_vars

\* Witness: a rift to another cell of the same time, then an extend from the
\* rift's destination that would not be a step from the position before it.
C26_SteppedFromRiftDestination ==
    /\ Len(line.path) = 3
    /\ line_result.op = "extend" /\ line_result.ok
    /\ line.path[2].t = line.path[1].t
    /\ manhattan_distance(line.path[1], line.path[2]) = 2
    /\ ~is_valid_step_from(line.path[3], line.path[1])

(***************************************************************************)
(* C27, C28, C29: what one propagation run writes and warns about.         *)
(***************************************************************************)
PropagationRan == world_result.op = "propagate_from_with_options" /\ world_result.ok

\* The cell a source entity is due in at time t: its patrol's waypoint, or
\* its own cell.
DueCell(e, t) ==
    IF e.patrol = <<>> THEN [x |-> e.position.x, y |-> e.position.y]
    ELSE LET path == e.patrol[1].path
             n == Len(path)
         IN IF e.patrol[1].loops THEN path[(t % n) + 1]
            ELSE IF t >= n - 1 THEN path[n] ELSE path[t + 1]

\* The instance of e due in slice t.
Due(e, t) == [e EXCEPT !.position = [x |-> DueCell(e, t).x, y |-> DueCell(e, t).y, t |-> t]]

\* The k-th source entity of the recorded run.
SourceOf(call, k) == Unwrap(call.before).slices[call.from_t + 1].entities[call.order[k]]

StoredIn(cube, t) == {cube.slices[t + 1].entities[i] : i \in DOMAIN cube.slices[t + 1].entities}

\* The k-th source entity meets, in slice t, an earlier entity of the same run
\* due in the same cell, both blocking movement.
MeetsPropagated(call, k, t) ==
    \E j \in 1..(k - 1) :
        /\ Due(SourceOf(call, j), t).position = Due(SourceOf(call, k), t).position
        /\ "BlocksMovement" \in SourceOf(call, j).components
        /\ "BlocksMovement" \in SourceOf(call, k).components

\* ... meets a movement-blocking entity of another id that the target slice
\* already held, itself blocking movement.
MeetsStored(call, k, t) ==
    \E o \in StoredIn(Unwrap(call.before), t) :
        /\ o.id # call.order[k]
        /\ o.position = Due(SourceOf(call, k), t).position
        /\ "BlocksMovement" \in o.components
        /\ "BlocksMovement" \in SourceOf(call, k).components

WrittenBy(call, cube, k, t) ==
    /\ Due(SourceOf(call, k), t) \in StoredIn(cube, t)
    /\ Due(SourceOf(call, k), t) \notin StoredIn(Unwrap(call.before), t)

Warned(call, k, t) ==
    \E i \in 1..Len(call.warnings) :
        /\ call.warnings[i].kind = "EntityCollision"
        /\ call.warnings[i].entity_b = call.order[k]
        /\ call.warnings[i].at = Due(SourceOf(call, k), t).position

TargetsOf(call) == (call.from_t + 1)..(Unwrap(call.before).time_depth - 1)

\* C27: with skip_collisions enabled, a propagated entity that collides in a
\* target slice, either with another entity propagated into the same cell in
\* the same run or with a movement-blocking entity already stored in that cell
\* of the target slice, is not written to that slice; with the option disabled
\* it is written and only a warning is recorded.
C27_SkipCollisions ==
    PropagationRan =>
        \A t \in TargetsOf(world_result), k \in 1..Len(world_result.order) :
            (/\ Inside(world, Due(SourceOf(world_result, k), t).position)
             /\ MeetsPropagated(world_result, k, t) \/ MeetsStored(world_result, k, t)) =>
                IF Unwrap(world_result.options).skip_collisions
                THEN ~WrittenBy(world_result, world, k, t)
                ELSE WrittenBy(world_result, world, k, t) /\ Warned(world_result, k, t)

\* What holds of the code: the option skips an entity that meets an earlier
\* entity of the run, and never one that only meets a stored entity.
C27_SkipsOnlyPropagatedPairs ==
    PropagationRan =>
        \A t \in TargetsOf(world_result), k \in 1..Len(world_result.order) :
            Inside(world, Due(SourceOf(world_result, k), t).position) =>
                /\ (MeetsPropagated(world_result, k, t)
                        /\ Unwrap(world_result.options).skip_collisions)
                      => ~WrittenBy(world_result, world, k, t)
                /\ (MeetsStored(world_result, k, t) /\ ~MeetsPropagated(world_result, k, t))
                      => WrittenBy(world_result, world, k, t) /\ Warned(world_result, k, t)
                /\ (MeetsPropagated(world_result, k, t)
                        /\ ~Unwrap(world_result.options).skip_collisions)
                      => WrittenBy(world_result, world, k, t) /\ Warned(world_result, k, t)

\* The entity a warning names: the source entity of that id, or else the
\* entity of that id which the target slice held before the run.
NamedBy(call, id, t) ==
    IF id \in DOMAIN Unwrap(call.before).slices[call.from_t + 1].entities
          /\ id \in {call.order[k] : k \in 1..Len(call.order)}
    THEN Due(Unwrap(call.before).slices[call.from_t + 1].entities[id], t)
    ELSE Unwrap(call.before).slices[t + 1].entities[id]

\* C28: during propagation an EntityCollision warning is recorded for a pair
\* of entities only when both block movement and occupy the same cell of the
\* same target slice; two propagated entities that share a cell but do not
\* both block movement (an exit and a rift, say) produce no collision warning.
C28_CollisionsOnlyBetweenBlockers ==
    PropagationRan =>
        \A i \in 1..Len(world_result.warnings) :
            LET w == world_result.warnings[i]
            IN w.kind = "EntityCollision" =>
                /\ "BlocksMovement" \in NamedBy(world_result, w.entity_a, w.at.t).components
                /\ "BlocksMovement" \in NamedBy(world_result, w.entity_b, w.at.t).components
                /\ NamedBy(world_result, w.entity_a, w.at.t).position = w.at
                /\ NamedBy(world_result, w.entity_b, w.at.t).position = w.at

\* What holds of the code: the two named entities share the cell of the
\* warning, and they both block movement when the first of them was stored in
\* the target slice rather than propagated in the same run.
C28_WarnedPairsShareACell ==
    PropagationRan =>
        \A i \in 1..Len(world_result.warnings) :
            LET w == world_result.warnings[i]
            IN w.kind = "EntityCollision" =>
                /\ w.entity_a # w.entity_b
                /\ NamedBy(world_result, w.entity_a, w.at.t).position = w.at
                /\ NamedBy(world_result, w.entity_b, w.at.t).position = w.at
                /\ w.entity_a \notin {world_result.order[k] : k \in 1..Len(world_result.order)}
                     => /\ "BlocksMovement"
                            \in NamedBy(world_result, w.entity_a, w.at.t).components
                        /\ "BlocksMovement"
                            \in NamedBy(world_result, w.entity_b, w.at.t).components

\* The entry of id in slice t of the cube, if any.
EntryOf(cube, id, t) ==
    IF id \in DOMAIN cube.slices[t + 1].entities
    THEN <<cube.slices[t + 1].entities[id]>> ELSE <<>>

PropagatedWhereDue ==
    PropagationRan =>
        \A t \in TargetsOf(world_result), k \in 1..Len(world_result.order) :
            LET e == SourceOf(world_result, k)
                was == EntryOf(Unwrap(world_result.before), e.id, t)
                is == EntryOf(world, e.id, t)
            IN /\ is # was => is = <<Due(e, t)>>
               /\ (Inside(world, Due(e, t).position)
                       /\ ~Unwrap(world_result.options).skip_collisions)
                     => is = <<Due(e, t)>>
               /\ ~Inside(world, Due(e, t).position) => is = was

\* C29: for a time-persistent entity carrying Patrol{path, loops} with path
\* length n, the instance that propagation writes into each target slice t
\* (when in bounds) sits at path[t mod n] if loops is true and at
\* path[min(t, n-1)] otherwise, so a non-looping patrol stays at its last
\* waypoint for every t >= n-1; an entity without Patrol keeps its spatial
\* cell and only its t changes.
C29_PatrolPropagation == PropagatedWhereDue

\* Witness: one run from slice 0 wrote the non-looping patroller at its last
\* waypoint in slices 1 and 2, the looping one back at its first waypoint in
\* slice 2, and the box in its own cell.
C29_StayedAtLastWaypoint ==
    /\ PropagationRan /\ world_result.from_t = 0
    /\ {"scout", "guard", "box"} \subseteq {world_result.order[k] : k \in 1..Len(world_result.order)}
    /\ EntryOf(Unwrap(world_result.before), "scout", 2) = <<>>
    /\ world.slices[2].entities["scout"].position = [x |-> 3, y |-> 0, t |-> 1]
    /\ world.slices[3].entities["scout"].position = [x |-> 3, y |-> 0, t |-> 2]
    /\ world.slices[2].entities["guard"].position = [x |-> 0, y |-> 0, t |-> 1]
    /\ world.slices[3].entities["guard"].position = [x |-> 1, y |-> 0, t |-> 2]
    /\ world.slices[3].entities["box"].position = [x |-> 0, y |-> 0, t |-> 2]

(***************************************************************************)
(* C30: a Push whose chain destination is blocked.                         *)
(***************************************************************************)
\* The chain members (counted from the player) whose cell after the push, in
\* slice t+1, is outside the cube or holds a blocker that is neither in the
\* chain nor the player.
BlockedDestinations(state, dir) ==
    {i \in 1..RunAhead(state, dir) :
        LET pos == Ahead(state, dir, i + 1, player_position(state).t + 1)
        IN \/ ~Inside(state.cube, pos)
           \/ \E e \in StoredIn(state.cube, pos.t) :
                 /\ "BlocksMovement" \in e.components
                 /\ e.position = pos
                 /\ e.id \notin ChainIds(state, dir) \cup {state.player_id}}

\* The player's own step to t+1 is inside the cube, free of blockers other
\* than the chain, and not in the world line.
PlayerStepValid(state, dir) ==
    LET pos == Ahead(state, dir, 1, player_position(state).t + 1)
    IN /\ DestinationFree(state, dir, pos)
       /\ pos \notin SeqToSet(state.world_line.path)

PushWithinChainBound ==
    /\ game.phase = "Playing" /\ result'.action.kind = "Push"
    /\ 1 <= RunAhead(game, result'.action.dir)
    /\ RunAhead(game, result'.action.dir) <= game.config.max_push_chain

\* C30 as stated (read for phase Playing, the only phase in which a Push is
\* validated): for a chain of length <= max_push_chain, if the destination
\* cell at t+1 of any pushed entity is outside the cube or holds a
\* movement-blocking entity that is neither in the chain nor the player, Push
\* fails with PushBlocked naming that cell (never PushChainTooLong) and the
\* state is unchanged.
C30_BlockedDestinationIsPushBlocked ==
    [][(PushWithinChainBound /\ BlockedDestinations(game, result'.action.dir) # {}) =>
          /\ ~result'.ok
          /\ result'.err.kind = "PushBlocked"
          /\ result'.err.at \in
                {Some(Ahead(game, result'.action.dir, i + 1, player_position(game).t + 1)) :
                    i \in BlockedDestinations(game, result'.action.dir)}
          /\ game' = game]_vars

\* C30 (amended): in phase Playing, for a chain of length <= max_push_chain,
\* if the destination
\* cell at t+1 of any pushed entity is outside the cube or holds a
\* movement-blocking entity that is neither in the chain nor the player, Push
\* fails, never with PushChainTooLong, and the state is unchanged: with
\* PushBlocked naming the first such cell along the chain when the player's
\* own step to t+1 is valid, and with MoveBlocked for the player's step
\* otherwise.  Destinations are checked only in slice t+1, so a blocker
\* present in slice t but absent from slice t+1 does not block, and chain
\* members never block each other: with no such destination and a valid
\* player step the Push succeeds.
C30_BlockedPush ==
    [][PushWithinChainBound =>
          LET dir == result'.action.dir
              bad == BlockedDestinations(game, dir)
              next_t == player_position(game).t + 1
          IN /\ bad # {} =>
                  /\ ~result'.ok
                  /\ game' = game /\ result'.input = game
                  /\ result'.err.kind # "PushChainTooLong"
                  /\ PlayerStepValid(game, dir) =>
                        result'.err
                          = PushBlocked(Ahead(game, dir,
                                (CHOOSE i \in bad : \A j \in bad : i <= j) + 1, next_t))
                  /\ ~PlayerStepValid(game, dir) =>
                        /\ result'.err.kind = "MoveBlocked"
                        /\ Unwrap(result'.err.move).x = Ahead(game, dir, 1, next_t).x
                        /\ Unwrap(result'.err.move).y = Ahead(game, dir, 1, next_t).y
                        /\ Unwrap(result'.err.move).t = next_t
             /\ (bad = {} /\ PlayerStepValid(game, dir)) => result'.ok]_vars

\* Witness: a Push of two boxes whose cells after the push both hold a wall
\* at t+1 was refused with PushBlocked naming the first of the two cells.
C30_FirstBlockedCellNamed ==
    /\ result.action.kind = "Push" /\ ~result.ok
    /\ game.phase = "Playing"
    /\ Cardinality(BlockedDestinations(game, result.action.dir)) = 2
    /\ result.err = PushBlocked(Ahead(game, result.action.dir, 2, player_position(game).t + 1))
    /\ result.input = game

\* Witness of the second half: a Push succeeded although the cell behind the
\* box held a wall in the slice the push started from.
C30_WallOnlyInTheCurrentSlice ==
    /\ result.action.kind = "Push" /\ result.ok
    /\ LET from == result.input
           dest == Ahead(from, result.action.dir, 2, player_position(from).t)
       IN BlockerAt(from.cube, dest) /\ ~BlockerAt(from.cube, [dest EXCEPT !.t = @ + 1])

\* The entities stored in slice t whose cell is the one behind the player
\* for a Pull(dir): one cell in the direction opposite to dir.
EntitiesBehind(state, dir) ==
    LET pos == Ahead(state, dir, -1, player_position(state).t)
    IN IF Inside(state.cube, pos)
       THEN {e \in StoredIn(state.cube, pos.t) : e.position = pos}
       ELSE {}

\* For a Pull(dir) of e: the player's cell one step in dir and the player's
\* old cell, both in slice t+1, are inside the cube and hold no
\* movement-blocking entity other than e and the player, and the player's
\* cell is not in the world line.
PullDestinationsValid(state, dir, e) ==
    LET t == player_position(state).t
        free(pos) ==
            /\ Inside(state.cube, pos)
            /\ ~\E b \in StoredIn(state.cube, pos.t) :
                   /\ "BlocksMovement" \in b.components
                   /\ b.position = pos
                   /\ b.id \notin {e.id, state.player_id}
    IN /\ free(Ahead(state, dir, 1, t + 1))
       /\ free(Ahead(state, dir, 0, t + 1))
       /\ Ahead(state, dir, 1, t + 1) \notin SeqToSet(state.world_line.path)

\* C31: in phase Playing, Pull(dir) depends only on whether the cell behind
\* the player (opposite dir, current slice) holds a Pullable entity: it fails
\* with NothingToPull exactly when that cell holds no entity, with NotPullable
\* exactly when the cell holds entities none of which is Pullable, and
\* whenever some entity of the cell is Pullable, other entities in the cell or
\* not, and both destinations are valid, it succeeds and moves that entity.
C31_PullNeedsAPullableBehind ==
    is_active(game) =>
        \A d \in Direction : \A nd \in NdChoices(game, Pull(d)) :
            LET r == apply_action(game, Pull(d), nd)
                t == player_position(game).t
            IN /\ (~r.ok /\ r.err.kind = "NothingToPull") <=> EntitiesBehind(game, d) = {}
               /\ (~r.ok /\ r.err.kind = "NotPullable") <=>
                     (EntitiesBehind(game, d) # {} /\ PullablesBehind(game, d) = {})
               /\ \A e \in PullablesBehind(game, d) :
                     PullDestinationsValid(game, d, e) =>
                        /\ r.ok
                        /\ Occupies(Unwrap(r.state).cube, e.id, Ahead(game, d, 0, t + 1))

\* What the code decides on: the first entity of the cell, in the order the
\* cell's index lists them.  Pull(dir) fails with NothingToPull exactly when
\* the cell is empty and with NotPullable exactly when the first entity is
\* not Pullable; when the first entity is Pullable and both destinations are
\* valid it succeeds and moves that entity.
C31_FirstEntityBehindDecides ==
    is_active(game) =>
        \A d \in Direction : \A nd \in NdChoices(game, Pull(d)) :
            LET r == apply_action(game, Pull(d), nd)
                t == player_position(game).t
                behind == entities_at(game.cube, Ahead(game, d, -1, t))
            IN /\ (~r.ok /\ r.err.kind = "NothingToPull") <=> behind = <<>>
               /\ (~r.ok /\ r.err.kind = "NotPullable") <=>
                     (behind # <<>> /\ ~is_pullable(behind[1]))
               /\ (behind # <<>> /\ is_pullable(behind[1])
                      /\ PullDestinationsValid(game, d, behind[1])) =>
                        /\ r.ok
                        /\ Occupies(Unwrap(r.state).cube, behind[1].id,
                                    Ahead(game, d, 0, t + 1))

\* A Pull was refused with NotPullable although the cell behind the player
\* holds a Pullable entity.
C31_PullableBehindAnExit ==
    /\ ~result.ok /\ result.action.kind = "Pull"
    /\ result.err.kind = "NotPullable"
    /\ PullablesBehind(result.input, result.action.dir) # {}

\* C32: for every state in phase Playing and every action for which
\* apply_action succeeds, preview_action returns the same ActionOutcome that
\* apply_action returns, Won and Detected included.
C32_PreviewIsTheOutcome ==
    is_active(game) =>
        \A a \in AllActions : \A nd \in NdChoices(game, a) :
            apply_action(game, a, nd).ok =>
                /\ preview_action(game, a).ok
                /\ preview_action(game, a).outcome = apply_action(game, a, nd).outcome

\* What the code returns: the action's nominal outcome.  The preview equals
\* the applied outcome except that it is never Won or Detected; when the
\* action wins or is detected the preview still names the nominal outcome
\* (Moved, Waited, Rifted, Pushed or Pulled).
C32_PreviewIsTheNominalOutcome ==
    is_active(game) =>
        \A a \in AllActions : \A nd \in NdChoices(game, a) :
            LET r == apply_action(game, a, nd)
                p == preview_action(game, a)
            IN r.ok =>
                  /\ p.ok
                  /\ Unwrap(p.outcome).kind \notin {"Won", "Detected"}
                  /\ Unwrap(r.outcome).kind \notin {"Won", "Detected"} =>
                        p.outcome = r.outcome
                  /\ Unwrap(r.outcome).kind \in {"Won", "Detected"} =>
                        Unwrap(p.outcome).kind =
                            CASE a.kind = "Move" -> "Moved"
                              [] a.kind = "Wait" -> "Waited"
                              [] a.kind = "UseRift" -> "Rifted"
                              [] a.kind = "Push" -> "Pushed"
                              [] a.kind = "Pull" -> "Pulled"

\* An action was applied whose outcome is Won while its preview, taken on the
\* state the action started from, is Moved.
C32_WonPreviewedAsMoved ==
    /\ result.ok /\ result.action.kind = "Move"
    /\ Unwrap(result.outcome).kind = "Won"
    /\ preview_action(result.input, result.action).ok
    /\ Unwrap(preview_action(result.input, result.action).outcome).kind = "Moved"

\* One apply_action call, seen from the session: the phase stays, or goes
\* from Playing to Won or Detected by a non-restart action, or to Playing by
\* Restart; Restart always ends in Playing; in Won and Detected every other
\* action is refused and leaves the state as it is.
PhaseStep ==
    /\ game'.phase # game.phase =>
          \/ /\ game.phase = "Playing" /\ game'.phase \in {"Won", "Detected"}
             /\ result'.action # Restart /\ result'.ok
          \/ result'.action = Restart /\ game'.phase = "Playing"
    /\ result'.action = Restart => result'.ok /\ game'.phase = "Playing"
    /\ (game.phase \in {"Won", "Detected"} /\ result'.action # Restart) =>
          ~result'.ok /\ game' = game

\* C33: over every sequence of apply_action calls the phase only ever changes
\* Playing -> Won, Playing -> Detected, or by Restart, from any phase, to
\* Playing; Won and Detected are absorbing until Restart, and the phases
\* Paradox and Restarted are never reached.
C33_PhaseTransitions ==
    /\ [](game.phase \in {"Playing", "Won", "Detected"})
    /\ [][PhaseStep]_vars

\* A game that was Detected is being played again after a Restart.
C33_RestartedFromDetected ==
    /\ result.ok /\ result.action = Restart
    /\ result.input.phase = "Detected"
    /\ game.phase = "Playing"

\* The rift entities of the cube, in any slice, whose target is the player's
\* position: the rifts whose far end the player stands on.
RiftsLeadingHere(state) ==
    UNION {{e \in StoredIn(state.cube, t) :
               is_rift(e) /\ Unwrap(e.rift).target = player_position(state)} :
           t \in 0..(state.cube.time_depth - 1)}

\* C34: a rift links its own position A and its target B, optionally in both
\* directions.  In phase Playing, with the player standing on B (at B's time)
\* and no rift in the player's own cell: for a rift at A marked bidirectional
\* UseRift teleports the player to A, subject to the self-intersection check
\* (A is stored in the cube, so inside it); for a one-way rift UseRift fails
\* with NoRiftHere.
C34_RiftLinksBothEnds ==
    (is_active(game) /\ RiftsHere(game) = {}) =>
        \A e \in RiftsLeadingHere(game) : \A nd \in NdChoices(game, UseRift) :
            LET r == apply_action(game, UseRift, nd)
            IN IF Unwrap(e.rift).bidirectional
               THEN IF e.position \notin SeqToSet(game.world_line.path)
                    THEN r.ok /\ player_position(Unwrap(r.state)) = e.position
                    ELSE ~r.ok /\ r.err = InvalidRiftTarget(e.position)
               ELSE ~r.ok /\ r.err = SimpleError("NoRiftHere")

\* What the code does: the bidirectional flag is never read.  Standing on the
\* target of a rift, with no rift in the player's own cell, UseRift fails with
\* NoRiftHere whether the rift is bidirectional or not.
C34_NoWayBack ==
    (is_active(game) /\ RiftsHere(game) = {}) =>
        \A nd \in NdChoices(game, UseRift) :
            LET r == apply_action(game, UseRift, nd)
            IN ~r.ok /\ r.err = SimpleError("NoRiftHere")

\* UseRift was refused with NoRiftHere on the target of a bidirectional rift.
C34_RefusedOnTheFarEnd ==
    /\ ~result.ok /\ result.action = UseRift
    /\ result.err = SimpleError("NoRiftHere")
    /\ result.input.phase = "Playing"
    /\ \E e \in RiftsLeadingHere(result.input) : Unwrap(e.rift).bidirectional

\* UseRift took the player from a bidirectional rift's own cell to its target.
C34_ForwardThroughTheRift ==
    /\ result.ok /\ result.action = UseRift
    /\ \E e \in RiftsHere(result.input) :
          Unwrap(e.rift).bidirectional /\ player_position(game) = Unwrap(e.rift).target

\* The cube holds one Player-tagged instance over all its slices; it carries
\* the state's player_id and sits, in the slice of its time, at the world
\* line's current position.
OnePlayerAtLineEnd(state) ==
    /\ PlayerInstancesOf(state.cube) = {<<player_position(state).t, state.player_id>>}
    /\ Occupies(state.cube, state.player_id, player_position(state))

\* A successful Move, Wait, UseRift, Push or Pull takes the player's entity
\* out of the cell it was in and writes it at the world line's new position.
PlayerRelocated ==
    (result'.ok /\ result'.action.kind \in PlayerActionKinds) =>
        LET from == player_position(game)
            to == player_position(game')
        IN /\ to # from
           /\ Occupies(game.cube, game.player_id, from)
           /\ ~Occupies(game'.cube, game.player_id, from)
           /\ Occupies(game'.cube, game.player_id, to)
           /\ game'.player_id = game.player_id

\* C35: in every reachable GameState exactly one Player-tagged entity exists
\* across all slices of the cube; it carries the state's player_id and its
\* position is the world line's current position.  Each successful move
\* removes the player from the old slice and writes it into the destination
\* slice, rift jumps within the same slice or to an earlier slice included.
C35_OnePlayerAtLineEnd == [](OnePlayerAtLineEnd(game)) /\ [][PlayerRelocated]_vars

\* A rift took the player to another cell of the same slice, and an earlier
\* rift or step had brought it there from slice 0.
C35_JumpedWithinTheSlice ==
    /\ result.ok /\ result.action = UseRift
    /\ player_position(result.input).t = player_position(game).t
    /\ spatial(player_position(result.input)) # spatial(player_position(game))
    /\ Cardinality(PlayerInstancesOf(game.cube)) = 1

\* A rift took the player to an earlier slice; the slice it left holds no
\* player any more.
C35_JumpedToAnEarlierSlice ==
    /\ result.ok /\ result.action = UseRift
    /\ player_position(result.input).t > player_position(game).t
    /\ PlayerInstancesOf(game.cube) = {<<player_position(game).t, game.player_id>>}

\* Every position the world line records is inside the cube, and the slice
\* of the player's time exists.
LineInside(state) ==
    /\ \A i \in 1..Len(state.world_line.path) :
          LET pos == state.world_line.path[i]
          IN /\ 0 <= pos.x /\ pos.x < state.cube.width
             /\ 0 <= pos.y /\ pos.y < state.cube.height
             /\ 0 <= pos.t /\ pos.t < state.cube.time_depth
    /\ state.world_line.path # <<>>
    /\ IsSome(slice(state.cube, player_position(state).t))

\* C36: in every reachable GameState every position recorded in the world
\* line lies inside the cube (0 <= x < width, 0 <= y < height,
\* 0 <= t < time_depth), so player_position() addresses an existing slice.
C36_LineInsideTheCube == LineInside(game)

\* UseRift on a rift whose target lies outside the cube was refused and the
\* world line is as it was.
C36_RiftOutOfTheCubeRefused ==
    /\ ~result.ok /\ result.action = UseRift
    /\ result.err.kind = "InvalidRiftTarget"
    /\ ~Inside(game.cube, Unwrap(result.err.at))
    /\ game.world_line = result.input.world_line
    /\ Len(game.world_line.path) > 1

\* The number of space-time cells of the state's cube.
CellsOf(state) == state.cube.width * state.cube.height * state.cube.time_depth

\* No Move, Wait, UseRift, Push or Pull would succeed on the state.
PlayIsOver(state) ==
    \A a \in AllActions \ {Restart} : \A nd \in NdChoices(state, a) :
        ~apply_action(state, a, nd).ok

\* C37: play without Restart terminates.  From a freshly constructed
\* GameState at most width * height * time_depth - 1 non-restart actions
\* succeed in a row (turn counts them), each adding a new, distinct cell of
\* the cube to the world line; once that many have succeeded every Move,
\* Wait, UseRift, Push and Pull is rejected.
C37_PlayTerminates ==
    /\ game.turn <= CellsOf(game) - 1
    /\ Len(game.world_line.path) = game.turn + 1
    /\ NoRepeat(game.world_line.path)
    /\ game.turn = CellsOf(game) - 1 => PlayIsOver(game)

\* The player has visited every cell of the cube: as many actions succeeded
\* as the bound allows, the last one a step into the last slice.
C37_EveryCellVisited ==
    /\ game.turn = CellsOf(game) - 1
    /\ result.ok
    /\ Cardinality(SeqToSet(game.world_line.path)) = CellsOf(game)
    /\ PlayIsOver(game)

\* Play ended earlier: nothing succeeds any more with cells left unvisited.
C37_OverEarlier ==
    /\ game.phase = "Playing"
    /\ 0 < game.turn /\ game.turn < CellsOf(game) - 1
    /\ PlayIsOver(game)

\* A slice without the entities named in ids: the entity map restricted, and
\* every cell's index list without those ids, empty lists dropped.
WithoutIds(s, ids) ==
    LET keep(c) == SelectSeq(s.spatial_index[c], LAMBDA i : i \notin ids)
    IN [t |-> s.t, width |-> s.width, height |-> s.height,
        entities |-> [k \in DOMAIN s.entities \ ids |-> s.entities[k]],
        spatial_index |-> [c \in {d \in DOMAIN s.spatial_index : keep(d) # <<>>} |-> keep(c)]]

\* The ids of the non-player entities the returned action reports as moved.
MovedIds(call) ==
    {call.moved_entities[i].id : i \in 1..Len(call.moved_entities)} \ {call.input.player_id}

\* The frame of a successful Move, Wait, Push or Pull taken at player time t.
\* Slices before t are as they were; slice t is as it was without the player;
\* in the slices after t every entity that is neither the player nor a moved
\* entity is as it was, and its cell lists it in the same place; a Move or a
\* Wait moves nothing but the player, whose new instance is the one change
\* to slices t+1 and later.
FrameOfAStep ==
    (result'.ok /\ result'.action.kind \in {"Move", "Wait", "Push", "Pull"}) =>
        LET t == player_position(game).t
            p == game.player_id
            old(u) == game.cube.slices[u + 1]
            new(u) == game'.cube.slices[u + 1]
        IN /\ Len(game'.cube.slices) = Len(game.cube.slices)
           /\ \A u \in 0..(t - 1) : new(u) = old(u)
           /\ new(t) = WithoutIds(old(t), {p})
           /\ \A u \in (t + 1)..(game.cube.time_depth - 1) :
                 WithoutIds(new(u), MovedIds(result') \cup {p})
                    = WithoutIds(old(u), MovedIds(result') \cup {p})
           /\ result'.action.kind \in {"Move", "Wait"} =>
                 /\ MovedIds(result') = {}
                 /\ \A u \in (t + 2)..(game.cube.time_depth - 1) : new(u) = old(u)
                 /\ WithoutIds(new(t + 1), {p}) = old(t + 1)
           /\ result'.action.kind \in {"Push", "Pull"} => MovedIds(result') # {}

\* C38: a successful Move, Wait, Push or Pull taken at player time t changes
\* no non-player entity in any slice with time <= t: the only change in
\* slices 0..t is the removal of the player entity from slice t; Move and Wait
\* change nothing in the cube but the player's entity, and Push and Pull
\* rewrite the moved entities only in slices t+1..time_depth-1.
C38_PastSlicesUntouched == [][FrameOfAStep]_vars

\* A Push was taken from a slice after the first, with the pushed box present
\* in the slice it was pushed from and in an earlier one, where it still is,
\* and moved in the slice after.
C38_PushedFromALaterSlice ==
    /\ result.ok /\ result.action.kind = "Push"
    /\ LET t == player_position(result.input).t
       IN /\ t >= 1
          /\ \E id \in MovedIds(result) :
                /\ Holds(game.cube, id, t - 1) /\ Holds(game.cube, id, t)
                /\ game.cube.slices[t + 1].entities[id]
                     = result.input.cube.slices[t + 1].entities[id]
                /\ game.cube.slices[t + 2].entities[id].position.x
                     # game.cube.slices[t + 1].entities[id].position.x

\* After a successful Move, Wait, Push or Pull no movement-blocking entity is
\* stored in the player's new cell of slice t+1, and every moved entity has
\* its instance of slice t+1 in another cell; a Move or Wait whose target
\* cell holds a movement-blocking entity in slice t+1 is rejected.
PlayerCellFree ==
    /\ (result'.ok /\ result'.action.kind \in {"Move", "Wait", "Push", "Pull"}) =>
          LET to == player_position(game')
          IN /\ to.t = player_position(game).t + 1
             /\ ~\E e \in StoredIn(game'.cube, to.t) :
                    "BlocksMovement" \in e.components /\ e.position = to
             /\ \A id \in MovedIds(result') :
                    /\ id \in DOMAIN game'.cube.slices[to.t + 1].entities
                    /\ spatial(game'.cube.slices[to.t + 1].entities[id].position) # spatial(to)
    /\ (/\ result'.action.kind \in {"Move", "Wait"} /\ game.phase = "Playing"
        /\ BlockerAt(game.cube, MoveTargetOf(game, result'.action))) =>
            ~result'.ok /\ game' = game

\* C39: after any successful Move, Wait, Push or Pull the player's new cell
\* in slice t+1 holds no movement-blocking entity: a Move or Wait is rejected
\* if the cell is blocked, and after a Push or Pull every moved entity's
\* instance in slice t+1 sits in a cell different from the player's.
C39_PlayerCellFree == [][PlayerCellFree]_vars

\* A Push moved the player into the cell that the pushed box held in slice
\* t+1 before the push.
C39_SteppedIntoTheBoxCell ==
    /\ result.ok /\ result.action.kind = "Push"
    /\ BlockerAt(result.input.cube, player_position(game))
    /\ ~BlockerAt(game.cube, player_position(game))

\* The instances the returned Push or Pull wrote: <<id, u>> for a moved
\* entity whose instance in slice u is new or differs from the one before.
PlacedBy(call, before, after) ==
    {<<id, u>> \in MovedIds(call) \X (0..(after.time_depth - 1)) :
        /\ id \in DOMAIN after.slices[u + 1].entities
        /\ \/ id \notin DOMAIN before.slices[u + 1].entities
           \/ before.slices[u + 1].entities[id] # after.slices[u + 1].entities[id]}

\* The instances among them that block movement and sit on a cell that the
\* world line had recorded before the action.
PlacedOnTheLine(call, before, after) ==
    {iu \in PlacedBy(call, before.cube, after) :
        LET e == after.slices[iu[2] + 1].entities[iu[1]]
        IN /\ "BlocksMovement" \in e.components
           /\ e.position \in SeqToSet(before.world_line.path)}

C40_NothingPlacedWithoutReturn ==
    [][(/\ result'.ok /\ result'.action.kind \in {"Push", "Pull"}
        /\ \A i \in 1..Len(game.world_line.path) :
              game.world_line.path[i].t <= player_position(game).t) =>
          PlacedOnTheLine(result', game, game'.cube) = {}]_vars

\* After a rift back to slice 0 a Push placed a box in a cell of slice 1 that
\* the player had been in.
C40_BoxOnThePlayersPast ==
    /\ result.ok /\ result.action.kind = "Push"
    /\ PlacedOnTheLine(result, result.input, game.cube) # {}
    /\ \E i \in 1..Len(result.input.history) : result.input.history[i] = UseRift

====
